---- MODULE Spec2Model ----
(***************************************************************************)
(* Model of the KDB core of libelektra (src/libs/elektra/kdb.c): the       *)
(* kdbGet and kdbSet orchestrators, the per-mountpoint backend data, the   *)
(* parent key used for error reporting, and backend plugins that follow    *)
(* the backend contract (doc "Proposal: Backend Plugins").                 *)
(*                                                                         *)
(* One KDB handle is modelled in full.  A kdbGet/kdbSet call is executed   *)
(* step by step, one backend-plugin call per step; the return code of      *)
(* each plugin call is chosen by the environment.  Handles of other        *)
(* processes appear through what they do to the shared persistent          *)
(* storage: between two calls another handle may commit a kdbSet.          *)
(***************************************************************************)
EXTENDS Integers, Sequences, FiniteSets, TLC

VARIABLES
    storage,        \* storage[b]: the persistent (live) storage unit of mountpoint b
    temp,           \* temp[b]: temporary storage unit the plugin of b prepared in a set
    fresh,          \* fresh[b]: plugin state, "fresh" while the storage unit of b is as it
                    \* was when a kdbGet last resolved it, "stale" once another process
                    \* changed it, "none" before the first resolve
    ks,             \* the caller's KeySet (key index -> [val, sync])
    ksSync,         \* sync flag of the caller's KeySet
    bd,             \* bd[b]: BackendData and internal metadata of the backend key
    pk,             \* the caller's parent key
    gphase,         \* system:/elektra/kdb/backend/phase in the global KeySet
    initialParent,  \* keyDup of the parent key taken by the call
    pc,             \* "idle", "spin", or the phase the call in progress is in
    op,             \* "none", "get" or "set": the call in progress (or the last call)
    idx,            \* loop cursor (1-based) into sel
    sel,            \* the KeySet `backends` of the call, in key order
    success,        \* the loop-local flag `success`
    ret,            \* return value of the last call, "none" while it runs
    trace,          \* plugin functions invoked by the call
    pre,            \* snapshot of the state at the start of the call
    gfailedphase,   \* system:/elektra/kdb/backend/failedphase in the global KeySet,
                    \* "none" while the global KeySet has no such key
    mounts,         \* handle->backends: the mountpoints of the handle, in key order
    noset,          \* the mountpoints whose backend plugin defines no set function
    csite,          \* the function whose switch over a plugin's return code is looked at
    ccode,          \* the return code given to it
    cflag,          \* its flag `success` before the switch
    cverdict,       \* what the switch made of the code
    perm,           \* the keys a test appends to a KeySet, in the order it appends them
    pos,            \* how many of them it has appended
    cks,            \* the KeySet of the test
    cmp,            \* the last comparison of two keys the test made
    conf,           \* the mountpoint definitions below system:/elektra/mountpoints
    opc,            \* where kdbOpen or kdbClose is, or how it ended
    hb,             \* handle->backends of the handle that is opened or closed
    parsed,         \* the KeySet `mountpoints` of elektraMountpointsParse
    pidx,           \* the definition elektraMountpointsParse is at
    perr,           \* its flag `error`
    ekey,           \* the error key given to kdbOpen and kdbClose
    pclosed,        \* the plugins elektraPluginClose was called for, in the order of the calls
    popened,        \* the plugins elektraPluginOpen has returned for the backends
    ccur,           \* closeBackends: the plugin it is at
    ofail,          \* kdbOpen has failed and closes the handle
    oret,           \* what kdbOpen or kdbClose returned
    nevents         \* number of events so far: calls started, changes made to the KeySet
                    \* or by other processes, init calls that reported read-only, plugin
                    \* calls that reported a failure (the first failure an error function
                    \* reports in a call is not counted)

\* what kdbGet and kdbSet never write
codeVars == <<csite, ccode, cflag, cverdict>>
ksVars == <<perm, pos, cks, cmp>>
openVars == <<conf, opc, hb, parsed, pidx, perr, ekey, pclosed, popened, ccur, ofail,
              oret>>
fixed == <<noset, codeVars, ksVars, openVars>>

\* the handle, the storage, and the caller's KeySet and parent key
handleVars == <<storage, temp, fresh, ks, ksSync, bd, pk, gphase, initialParent, pc, op,
                idx, sel, success, ret, trace, pre, gfailedphase, nevents, mounts>>

vars == <<handleVars, fixed>>

(***************************************************************************)
(* Bounds                                                                  *)
(***************************************************************************)
MaxEvents == 4

Values == {1, 2}

(***************************************************************************)
(* Key names.  Keys are referred to by their index in the canonical key    *)
(* order; KeyPath gives the name as a sequence of parts.                   *)
(***************************************************************************)
KeyPath == << <<"user", "a", "k">>, <<"user", "x">> >>
KeyIdx == DOMAIN KeyPath

\* The mount table of a handle, in canonical key order.
BackendSeq == << "user:/", "user:/a" >>
Backends == {BackendSeq[i] : i \in DOMAIN BackendSeq}
MountPath(b) ==
    CASE b = "user:/" -> <<"user">>
      [] b = "user:/a" -> <<"user", "a">>
      [] b = "user:/x" -> <<"user", "x">>
      [] b = "spec:/" -> <<"spec">>
      [] b = "proc:/" -> <<"proc">>
      [] b = "dir:/" -> <<"dir">>
      [] b = "system:/" -> <<"system">>
      [] b = "system:/elektra" -> <<"system", "elektra">>
      [] b = "system:/elektra/modules" -> <<"system", "elektra", "modules">>
      [] b = "system:/elektra/modules/backend" -> <<"system", "elektra", "modules", "backend">>
      [] b = "system:/elektra/version" -> <<"system", "elektra", "version">>
      [] b = "system:/elektra/x" -> <<"system", "elektra", "x">>

\* Parent keys the caller passes: the two mountpoints and a key that is no mountpoint.
Parents == {"user:/", "user:/a", "user:/x"}

\* keyIsBelowOrSame on name parts
keyIsBelowOrSame(p, k) ==
    /\ Len(p) <= Len(k)
    /\ \A i \in 1..Len(p) : p[i] = k[i]

(***************************************************************************)
(* The order of keys.  A key name is a namespace and a sequence of parts;  *)
(* a key may have an owner.  Strings are compared like strcmp compares     *)
(* them; StrOrder lists the strings that occur in that order.              *)
(***************************************************************************)
NsOrder == <<"", "spec", "proc", "dir", "user", "system", "default">>
StrOrder == <<"", "1", "2", "a", "backend", "elektra", "markus", "max", "modules", "s",
              "version", "x", "y", "z">>

NsRank(n) == CHOOSE i \in DOMAIN NsOrder : NsOrder[i] = n
StrRank(n) == CHOOSE i \in DOMAIN StrOrder : StrOrder[i] = n

\* -1, 0 or 1 as a is less than, equal to or greater than b
Sign(a, b) == IF a < b THEN -1 ELSE IF a > b THEN 1 ELSE 0

\* the key without a name
EmptyKey == [ns |-> "", parts |-> <<>>, owner |-> ""]

\* comparison of the parts of two names, part by part; a name sorts before the names below it
RECURSIVE PartsCmp(_, _)
PartsCmp(p, q) ==
    IF p = <<>> THEN (IF q = <<>> THEN 0 ELSE -1)
    ELSE IF q = <<>> THEN 1
    ELSE IF Head(p) # Head(q) THEN Sign(StrRank(Head(p)), StrRank(Head(q)))
    ELSE PartsCmp(Tail(p), Tail(q))

\* a comparison of keys that does not look at the owner
keyCmpNoOwner(a, b) ==
    IF a.ns # b.ns THEN Sign(NsRank(a.ns), NsRank(b.ns)) ELSE PartsCmp(a.parts, b.parts)

\* keyCmp: by name first, by owner among keys of the same name; the key without a name
\* sorts before every other key, a key without an owner before the same name with one
keyCmp(a, b) ==
    IF a.ns # b.ns THEN Sign(NsRank(a.ns), NsRank(b.ns))
    ELSE IF PartsCmp(a.parts, b.parts) # 0 THEN PartsCmp(a.parts, b.parts)
    ELSE Sign(StrRank(a.owner), StrRank(b.owner))

\* an append that puts the key at the end
ksAppendKeyAtEnd(s, e) == Append(s, e)

\* ksAppendKey on a KeySet held as the sequence of its entries in key order; an entry is a
\* record with the field key.  An entry whose key compares equal is replaced.
ksAppendKey(s, e) ==
    SelectSeq(s, LAMBDA x : keyCmp(x.key, e.key) < 0) \o <<e>> \o
        SelectSeq(s, LAMBDA x : keyCmp(x.key, e.key) > 0)

\* A KeySet: a function from a set of key indices to [val, sync].
EmptyKs == [k \in {} |-> 0]
KeySets == UNION {[D -> [val : Values, sync : BOOLEAN]] : D \in SUBSET KeyIdx}

\* Position (0-based cursor) -> key index, in key order
ksGetSize(s) == Cardinality(DOMAIN s)
ksAtCursor(s, c) == CHOOSE k \in DOMAIN s : Cardinality({j \in DOMAIN s : j < k}) = c

\* ksAppend: keys of t replace keys of s with the same name
ksAppend(s, t) == [k \in (DOMAIN s) \cup (DOMAIN t) |-> IF k \in DOMAIN t THEN t[k] ELSE s[k]]

\* ksCut / ksBelow on a parent path
ksBelow(s, p) == [k \in {j \in DOMAIN s : keyIsBelowOrSame(p, KeyPath[j])} |-> s[k]]
KsWithout(s, p) == [k \in {j \in DOMAIN s : ~keyIsBelowOrSame(p, KeyPath[j])} |-> s[k]]

\* elektraKsPopAtCursor: removes the key at cursor c, nothing if c is out of range
elektraKsPopAtCursor(s, c) ==
    IF c < 0 \/ c >= ksGetSize(s) THEN s
    ELSE [k \in (DOMAIN s) \ {ksAtCursor(s, c)} |-> s[k]]

\* what a storage unit holds: the values, no flags
Stored(s) == [k \in DOMAIN s |-> [val |-> s[k].val, sync |-> FALSE]]

(***************************************************************************)
(* Plugin return codes and phases                                          *)
(***************************************************************************)
Codes == {"SUCCESS", "NO_UPDATE", "ERROR", "CACHE_HIT"}

\* values a plugin function may return that are no ELEKTRA_PLUGIN_STATUS_* value
OtherCodes == {"OTHER_A", "OTHER_B", "OTHER_C"}

\* the functions that call a backend plugin and switch over the value it returns
Sites == {"initBackends", "resolveBackendsForGet", "runGetPhase", "resolveBackendsForSet",
          "runSetPhase"}

\* the switch has not run
NoVerdict == [ok |-> TRUE, log |-> "pending"]

\* a switch with a case for ELEKTRA_PLUGIN_STATUS_CACHE_HIT that lets the call pass
CheckResultCacheHitOk(site, r) ==
    IF r \in {"SUCCESS", "NO_UPDATE", "CACHE_HIT"} THEN [ok |-> TRUE, log |-> "none"]
    ELSE [ok |-> FALSE, log |-> "failed"]

\* the switch over the return code of a plugin call: whether the call counts as a
\* success, and the warning that is added ("failed": the call has failed, "unknown": an
\* unknown result code, "no_update": no update reported by a set resolver)
CheckResult(site, r) ==
    IF r = "SUCCESS" THEN [ok |-> TRUE, log |-> "none"]
    ELSE IF r = "NO_UPDATE"
         THEN [ok |-> TRUE,
               log |-> IF site = "resolveBackendsForSet" THEN "no_update" ELSE "none"]
    ELSE IF r = "ERROR" THEN [ok |-> FALSE, log |-> "failed"]
    ELSE [ok |-> FALSE, log |-> "unknown"]

GetPhases == <<"init", "resolver", "prestorage", "storage", "poststorage">>
SetPhases == <<"resolver", "prestorage", "storage", "poststorage", "precommit", "commit",
               "postcommit">>
RollbackPhases == <<"prerollback", "rollback", "postrollback">>

SeqToSet(s) == {s[i] : i \in DOMAIN s}

\* identifiers the resolver writes into the parent key's value
EmptyStr == <<>>
NoMeta == <<"null">>
LiveId(b) == <<"file", b>>
TempId(b) == <<"tmp", b>>
NoFile == [exists |-> FALSE, keys |-> <<>>]

(***************************************************************************)
(* Parent key: name, value and the error/warning metadata                  *)
(***************************************************************************)
\* name the init phase gives to the parent key
MountpointsName(b) == IF b = "user:/" THEN "system:/elektra/mountpoints/user:\\/"
                      ELSE IF b = "spec:/" THEN "system:/elektra/mountpoints/spec:\\/"
                      ELSE "system:/elektra/mountpoints/user:\\/a"

NewKey(n) == [name |-> n, value |-> EmptyStr, err |-> "none", errInfo |-> "none", warn |-> {}]

\* a clearErrorAndWarnings that leaves the metadata alone
clearErrorAndWarningsNoop(k) == k

clearErrorAndWarnings(k) == [k EXCEPT !.err = "none", !.errInfo = "none", !.warn = {}]

\* ELEKTRA_ADD_*_WARNING
AddWarning(k, w) == [k EXCEPT !.warn = @ \cup {w}]

\* an error macro that records nothing
SetErrorDropped(k, kind) == k

\* ELEKTRA_SET_*_ERROR: while meta:/error exists a new error is recorded as a warning
SetError(k, kind) ==
    IF k.err # "none" THEN AddWarning(k, kind)
    ELSE [k EXCEPT !.err = kind, !.errInfo = kind]

\* keySetMeta (parentKey, "error", "blocked") and keySetMeta (parentKey, "error", NULL)
BlockErrors(k) == [k EXCEPT !.err = "blocked"]
UnblockErrors(k) == [k EXCEPT !.err = "none"]

(***************************************************************************)
(* Mount table queries                                                     *)
(***************************************************************************)
\* does the backend plugin of mountpoint b define function fn
HasFn(b, fn) == ~(fn = "set" /\ b \in noset)

\* backendsFindParent: the deepest mountpoint among the backends of B at or above path q
backendsFindParent(B, q) ==
    LET cand == {b \in SeqToSet(B) : keyIsBelowOrSame(MountPath(b), q)}
    IN IF cand = {} THEN "null"
       ELSE CHOOSE b \in cand : \A c \in cand : Len(MountPath(c)) <= Len(MountPath(b))

\* subsequence of B with the elements that satisfy Keep
RECURSIVE SelectSeq2(_, _)
SelectSeq2(B, keep) ==
    IF B = <<>> THEN <<>>
    ELSE IF Head(B) \in keep THEN <<Head(B)>> \o SelectSeq2(Tail(B), keep)
    ELSE SelectSeq2(Tail(B), keep)

\* backendsForParentKey: the backends at or below the parent key and the one that owns it
backendsForParentKey(p) ==
    SelectSeq2(mounts,
               {b \in SeqToSet(mounts) : keyIsBelowOrSame(MountPath(p), MountPath(b))}
                   \cup {backendsFindParent(mounts, MountPath(p))})

\* backendsDivide: can every key of s be given to one of the backends of B
backendsDivideOk(B, s) == \A k \in DOMAIN s : backendsFindParent(B, KeyPath[k]) # "null"

\* backendsDivide: the keys of s that go to backend b of B
backendsDividePart(B, s, b) == [k \in {j \in DOMAIN s : backendsFindParent(B, KeyPath[j]) = b} |-> s[k]]

\* backendsMerge: append the keys of all backends of B to s
RECURSIVE backendsMerge(_, _, _)
backendsMerge(B, d, s) ==
    IF B = <<>> THEN s
    ELSE backendsMerge(Tail(B), d, ksAppend(s, d[Head(B)].keys))

\* step 16a that cuts nothing
CutBackendsNone(B, s) == s

\* kdbGet step 16a: ksCut of every backend's mountpoint from ks
RECURSIVE CutBackends(_, _)
CutBackends(B, s) ==
    IF B = <<>> THEN s
    ELSE CutBackends(Tail(B), KsWithout(s, MountPath(Head(B))))

\* a check that finds a changed key in every KeySet
ksKeyNeedSyncAlways(s) == TRUE

ksKeyNeedSync(s) == \E k \in DOMAIN s : s[k].sync

\* value of meta:/internal/kdbmountpoint of the backend owning the parent key, as copied by
\* keyCopy (parentKey, keyGetMeta (backendsFindParent (...), ...), KEY_CP_STRING);
\* a NULL source clears the value
ParentMountpointId(B, d, p) ==
    LET b == backendsFindParent(B, MountPath(p))
    IN IF b = "null" \/ d[b].mountpoint = NoMeta THEN EmptyStr ELSE d[b].mountpoint

\* step 4 without the test that the backends are initialized
RECURSIVE CheckBackendsNoInit(_, _, _, _, _)
CheckBackendsNoInit(B, d, i, s, init) ==
    IF i >= Len(B) THEN [hang |-> FALSE, ks |-> s, init |-> init]
    ELSE LET b == B[i + 1]
         IN IF d[b].initialized /\ d[b].readonly
            THEN IF i >= ksGetSize(s)
                 THEN [hang |-> TRUE, ks |-> s, init |-> init]
                 ELSE CheckBackendsNoInit(B, d, i, elektraKsPopAtCursor(s, i), init)
            ELSE CheckBackendsNoInit(B, d, i + 1, s, init)

\* step 4 that goes on to the next backend after it removed a key for a read-only one
RECURSIVE CheckBackendsPopOnce(_, _, _, _, _)
CheckBackendsPopOnce(B, d, i, s, init) ==
    IF i >= Len(B) THEN [hang |-> FALSE, ks |-> s, init |-> init]
    ELSE LET b == B[i + 1]
         IN IF ~d[b].initialized THEN CheckBackendsPopOnce(B, d, i + 1, s, FALSE)
            ELSE IF d[b].readonly
                 THEN CheckBackendsPopOnce(B, d, i + 1, elektraKsPopAtCursor(s, i), init)
                 ELSE CheckBackendsPopOnce(B, d, i + 1, s, init)

\* kdbSet step 4: the loop over the backends, cursor i (0-based), caller's KeySet s
RECURSIVE CheckBackends(_, _, _, _, _)
CheckBackends(B, d, i, s, init) ==
    IF i >= Len(B) THEN [hang |-> FALSE, ks |-> s, init |-> init]
    ELSE LET b == B[i + 1]
         IN IF ~d[b].initialized THEN CheckBackends(B, d, i + 1, s, FALSE)
            ELSE IF d[b].readonly
                 THEN \* elektraKsPopAtCursor (ks, i); --i;  the same backend is visited again
                      IF i >= ksGetSize(s)
                      THEN [hang |-> TRUE, ks |-> s, init |-> init]
                      ELSE CheckBackends(B, d, i, elektraKsPopAtCursor(s, i), init)
                 ELSE CheckBackends(B, d, i + 1, s, init)

(***************************************************************************)
(* Initial state: a freshly opened handle, an empty KeySet                 *)
(***************************************************************************)
\* initRo is state of the backend plugin: its init function reported read-only
NewBackendData == [backend |-> "backend", initialized |-> FALSE, readonly |-> FALSE,
                   mountpoint |-> NoMeta, needsupdate |-> FALSE, keys |-> EmptyKs,
                   initRo |-> FALSE]

\* keys a storage unit of mountpoint b can hold: the keys b owns
OwnedKeys(b) == {k \in KeyIdx : backendsFindParent(BackendSeq, KeyPath[k]) = b}

InitStorage == [b \in Backends |-> [k \in OwnedKeys(b) |-> [val |-> 1, sync |-> FALSE]]]

\* the state a call starts in; op and ret are those of the call before it, "none" when the
\* KeySet or the storage was changed in between
Snapshot(p) == [storage |-> storage, temp |-> temp, fresh |-> fresh, ks |-> ks,
                ksSync |-> ksSync, bd |-> bd, pk |-> pk, gphase |-> gphase, parent |-> p,
                op |-> op, ret |-> ret]

NoCall == [storage |-> InitStorage, temp |-> [b \in Backends |-> NoFile],
           fresh |-> [b \in Backends |-> "none"], ks |-> EmptyKs, ksSync |-> FALSE,
           bd |-> [b \in Backends |-> NewBackendData], pk |-> NewKey("user:/"),
           gphase |-> "none", parent |-> "user:/", op |-> "none", ret |-> "none"]

\* the handle kdbOpen returned, and the caller's KeySet and parent key
HandleInit ==
    /\ mounts = BackendSeq
    /\ storage = InitStorage
    /\ temp = [b \in Backends |-> NoFile]
    /\ fresh = [b \in Backends |-> "none"]
    /\ ks = EmptyKs
    /\ ksSync = FALSE
    /\ bd = [b \in Backends |-> NewBackendData]
    /\ pk = NewKey("user:/")
    /\ initialParent = NewKey("user:/")
    /\ pc = "idle"
    /\ op = "none"
    /\ idx = 1
    /\ sel = <<>>
    /\ success = TRUE
    /\ ret = "none"
    /\ gphase = "none"
    /\ trace = <<>>
    /\ pre = NoCall
    /\ gfailedphase = "none"
    /\ nevents = 0

\* no return code is being looked at
CodesIdle ==
    /\ csite = "none"
    /\ ccode = "none"
    /\ cflag = TRUE
    /\ cverdict = NoVerdict

\* no test of KeySets runs
NoCmp == [a |-> EmptyKey, b |-> EmptyKey, r |-> 0, done |-> FALSE]

KsIdle ==
    /\ perm = <<>>
    /\ pos = 0
    /\ cks = <<>>
    /\ cmp = NoCmp

\* an error key without warnings and without an error
NewErrorKey == [warn |-> {}, err |-> "none"]

\* kdbOpen is not looked at
OpenIdle ==
    /\ conf = <<>>
    /\ opc = "none"
    /\ hb = <<>>
    /\ parsed = <<>>
    /\ pidx = 1
    /\ perr = FALSE
    /\ ekey = NewErrorKey
    /\ pclosed = <<>>
    /\ popened = {}
    /\ ccur = 1
    /\ ofail = FALSE
    /\ oret = "none"

\* every backend plugin defines all functions of the contract
Init ==
    /\ HandleInit
    /\ noset = {}
    /\ CodesIdle
    /\ KsIdle
    /\ OpenIdle

\* the backend plugin of the nested mountpoint defines no set function
InitNoSet ==
    /\ HandleInit
    /\ noset = {"user:/a"}
    /\ CodesIdle
    /\ KsIdle
    /\ OpenIdle

\* no call is in progress
Quiet == pc = "idle"

\* the plugin invocation recorded in the trace
Call(ph, b, fn, r, g) == [phase |-> ph, b |-> b, fn |-> fn,
                          ok |-> r \in {"SUCCESS", "NO_UPDATE"}, gphase |-> g,
                          gfailedphase |-> gfailedphase]

\* a plugin result that is neither success nor no-update
IsFault(r) == r \notin {"SUCCESS", "NO_UPDATE"}
FaultCount(r) == IF IsFault(r) THEN 1 ELSE 0

\* n more events happen; a run has at most MaxEvents events
Events(n) ==
    /\ nevents + n <= MaxEvents
    /\ nevents' = nevents + n

(***************************************************************************)
(* The caller edits its KeySet between calls                               *)
(***************************************************************************)
\* the record of the last call ends when the KeySet or the storage is changed after it
Forget ==
    /\ op' = "none"
    /\ ret' = "none"
    /\ trace' = <<>>
    /\ pre' = NoCall

\* ksAppendKey of a new or changed key
UserAppend(k, v) ==
    /\ Quiet
    /\ Events(1)
    /\ ks' = ksAppend(ks, [j \in {k} |-> [val |-> v, sync |-> TRUE]])
    /\ ksSync' = TRUE
    /\ Forget
    /\ UNCHANGED <<mounts, fixed, storage, temp, fresh, bd, pk, gphase, initialParent, pc, idx, sel, success,
                   gfailedphase>>

\* ksLookup (..., KDB_O_POP) of a key
UserRemove(k) ==
    /\ Quiet
    /\ Events(1)
    /\ k \in DOMAIN ks
    /\ ks' = [j \in (DOMAIN ks) \ {k} |-> ks[j]]
    /\ ksSync' = TRUE
    /\ Forget
    /\ UNCHANGED <<mounts, fixed, storage, temp, fresh, bd, pk, gphase, initialParent, pc, idx, sel, success,
                   gfailedphase>>

\* a handle of another process commits a kdbSet that changes the storage unit of b
OtherCommit(b, k, v) ==
    /\ Quiet
    /\ Events(1)
    /\ k \in OwnedKeys(b)
    /\ storage[b] # [j \in {k} |-> [val |-> v, sync |-> FALSE]]
    /\ storage' = [storage EXCEPT ![b] = [j \in {k} |-> [val |-> v, sync |-> FALSE]]]
    /\ fresh' = [fresh EXCEPT ![b] = IF @ = "fresh" THEN "stale" ELSE @]
    /\ Forget
    /\ UNCHANGED <<mounts, fixed, temp, ks, ksSync, bd, pk, gphase, initialParent, pc, idx, sel, success,
                   gfailedphase>>

\* a handle of another process commits a kdbSet that leaves the storage unit of b empty
OtherRemove(b) ==
    /\ Quiet
    /\ Events(1)
    /\ storage[b] # EmptyKs
    /\ storage' = [storage EXCEPT ![b] = EmptyKs]
    /\ fresh' = [fresh EXCEPT ![b] = IF @ = "fresh" THEN "stale" ELSE @]
    /\ Forget
    /\ UNCHANGED <<mounts, fixed, temp, ks, ksSync, bd, pk, gphase, initialParent, pc, idx, sel, success,
                   gfailedphase>>

(***************************************************************************)
(* kdbGet                                                                  *)
(***************************************************************************)
\* kdbGet, steps 0 and 1: preconditions, clearErrorAndWarnings, backendsForParentKey
kdbGet(p) ==
    /\ Quiet
    /\ Events(1)
    /\ LET k == clearErrorAndWarnings([pk EXCEPT !.name = p])
       IN /\ pk' = k
          /\ initialParent' = k
    /\ sel' = backendsForParentKey(p)
    /\ pc' = "init"
    /\ op' = "get"
    /\ idx' = 1
    /\ success' = TRUE
    /\ ret' = "none"
    /\ trace' = <<>>
    /\ pre' = Snapshot(p)
    /\ UNCHANGED <<mounts, fixed, storage, temp, fresh, ks, ksSync, bd, gphase, gfailedphase>>

\* the `error:` exit of kdbGet
GetError(k, d) ==
    /\ pk' = [k EXCEPT !.name = initialParent.name,
                       !.value = ParentMountpointId(sel, d, initialParent.name)]
    /\ ret' = "-1"
    /\ pc' = "idle"
    /\ idx' = 1

\* initBackends that calls the init function of every backend
InitCalledAlways(initialized) == TRUE

\* initBackends: `if (backendData->initialized) continue;`
InitCalled(initialized) == ~initialized

\* initBackends that takes every result of the init function for a success
InitOkAlways(initialized, called, r) == TRUE

\* initBackends: is the backend initialized after the call of its init function
InitOk(initialized, called, r) ==
    initialized \/ (called /\ CheckResult("initBackends", r).ok)

\* initBackends: one iteration of the loop, and the end of the function after the last one
initBackends(r) ==
    /\ pc = "init"
    /\ op = "get"
    /\ LET b == sel[idx]
           d0 == [bd EXCEPT ![b].readonly = FALSE]
           called == InitCalled(d0[b].initialized) /\ HasFn(b, "init")
           okInit == InitOk(d0[b].initialized, called, r)
           d1 == IF ~called THEN d0
                 ELSE IF r = "SUCCESS" THEN [d0 EXCEPT ![b].initialized = TRUE]
                 ELSE IF r = "NO_UPDATE"
                      THEN [d0 EXCEPT ![b].initialized = TRUE, ![b].readonly = TRUE,
                                      ![b].initRo = TRUE]
                 ELSE d0
           k0 == IF called THEN [pk EXCEPT !.name = MountpointsName(b)] ELSE pk
           k1 == IF okInit THEN k0
                 ELSE IF ~called THEN AddWarning(k0, "interface")
                 ELSE AddWarning(k0, "interface")
           succ1 == success /\ okInit
           last == idx = Len(sel)
       IN /\ IF called THEN Events(IF r = "SUCCESS" THEN 0 ELSE 1)
             ELSE r = "SUCCESS" /\ Events(0)
          /\ bd' = d1
          /\ trace' = IF called THEN Append(trace, Call("init", b, "init", r, gphase))
                       ELSE trace
          /\ IF ~last
             THEN /\ idx' = idx + 1
                  /\ success' = succ1
                  /\ pk' = k1
                  /\ UNCHANGED <<pc, ret>>
             ELSE /\ idx' = 1
                  /\ success' = TRUE
                  /\ IF succ1
                     THEN /\ pk' = k1
                          /\ pc' = "resolver"
                          /\ UNCHANGED ret
                     ELSE /\ pk' = [SetError(k1, "interface") EXCEPT
                                           !.name = initialParent.name,
                                           !.value = initialParent.value]
                          /\ pc' = "idle"
                          /\ ret' = "-1"
    /\ UNCHANGED <<mounts, fixed, storage, temp, fresh, ks, ksSync, gphase, initialParent, op, sel,
                   pre, gfailedphase>>

\* a resolver that never reports that the storage unit is unchanged
GetResolverCodesNoCompare(b) == {"SUCCESS", "ERROR", "CACHE_HIT"}

\* return codes a contract-conforming plugin gives in the resolver phase of a get
GetResolverCodes(b) ==
    {IF fresh[b] = "fresh" THEN "NO_UPDATE" ELSE "SUCCESS", "ERROR", "CACHE_HIT"}

\* resolveBackendsForGet that marks every resolved backend
NeedsUpdateAlways(r) == TRUE

\* resolveBackendsForGet: meta:/internal/kdbneedsupdate is set in the case
\* ELEKTRA_PLUGIN_STATUS_SUCCESS and not in the case ELEKTRA_PLUGIN_STATUS_NO_UPDATE
NeedsUpdate(r) == r = "SUCCESS"

\* a backendsForParentKey that hands out the KeySet of the handle itself
HandleBackendsAliased(m, B) == B

\* handle->backends after the call has popped backends from `backends`, the KeySet
\* backendsForParentKey built for it: the KeySet of the handle is another KeySet
HandleBackends(m, B) == m

\* step 4 that removes no backend
NeedsUpdateSeqAll(B, d) == B

\* kdbGet step 4: the backends that stay in `backends`
NeedsUpdateSeq(B, d) == SelectSeq2(B, {b \in DOMAIN d : d[b].needsupdate})

\* resolveBackendsForGet: one iteration of the loop; after the last one the end of the
\* function and steps 4 and 5 of kdbGet
resolveBackendsForGet(r) ==
    /\ pc = "resolver"
    /\ op = "get"
    /\ LET b == sel[idx]
           d0 == [bd EXCEPT ![b].mountpoint = NoMeta, ![b].needsupdate = FALSE]
           called == HasFn(b, "get")
           ok == called /\ CheckResult("resolveBackendsForGet", r).ok
           \* the plugin writes the storage identifier into the parent key's value
           k0 == IF called
                 THEN [pk EXCEPT !.name = b, !.value = IF ok THEN LiveId(b) ELSE EmptyStr]
                 ELSE pk
           d1 == IF ok THEN [d0 EXCEPT ![b].mountpoint = k0.value,
                                        ![b].needsupdate = NeedsUpdate(r)]
                 ELSE d0
           k1 == IF ok THEN k0
                 ELSE IF ~called THEN AddWarning(k0, "interface")
                 ELSE AddWarning(k0, "interface")
           succ1 == success /\ ok
           last == idx = Len(sel)
           rest == NeedsUpdateSeq(sel, d1)
       IN /\ IF called THEN r \in GetResolverCodes(b) /\ Events(FaultCount(r))
             ELSE r = "SUCCESS" /\ Events(0)
          /\ bd' = d1
          /\ mounts' = IF last /\ succ1 THEN HandleBackends(mounts, rest) ELSE mounts
          /\ fresh' = [fresh EXCEPT ![b] = IF ok THEN "fresh" ELSE @]
          /\ gphase' = IF called THEN "resolver" ELSE gphase
          /\ trace' = IF called THEN Append(trace, Call("resolver", b, "get", r, "resolver"))
                       ELSE trace
          /\ IF ~last
             THEN /\ idx' = idx + 1
                  /\ success' = succ1
                  /\ pk' = k1
                  /\ UNCHANGED <<pc, ret, sel>>
             ELSE /\ success' = TRUE
                  /\ IF ~succ1
                     THEN /\ GetError(SetError(k1, "interface"), d1)
                          /\ UNCHANGED sel
                     ELSE IF rest = <<>>
                     THEN /\ pk' = [k1 EXCEPT !.name = initialParent.name,
                                                  !.value = ParentMountpointId(rest, d1,
                                                                initialParent.name)]
                          /\ sel' = rest
                          /\ ret' = "0"
                          /\ pc' = "idle"
                          /\ idx' = 1
                     ELSE /\ pk' = k1
                          /\ sel' = rest
                          /\ pc' = "prestorage"
                          /\ idx' = 1
                          /\ UNCHANGED ret
    /\ UNCHANGED <<fixed, storage, temp, ks, ksSync, initialParent, op, pre, gfailedphase>>

\* ksBelow (backends, specRoot): the backends in the spec namespace
SpecSeq(B) == SelectSeq2(B, {b \in SeqToSet(B) : MountPath(b)[1] = "spec"})

\* the backends the loop of the current phase runs over
PhaseBackends == IF pc = "specstorage" THEN SpecSeq(sel) ELSE sel

\* what the backend plugin does to the KeySet it is given in a phase of a get:
\* in the storage phase it inserts the data of the storage unit
PluginGet(ph, b, r, keys) ==
    IF ph \in {"storage", "specstorage"} /\ r \in {"SUCCESS", "NO_UPDATE"}
    THEN ksAppend(keys, Stored(storage[b]))
    ELSE keys

\* kdbGet step 9b: ksClear of the keys of every backend
ClearKeys(B, d) == [b \in DOMAIN d |-> IF b \in SeqToSet(B) THEN [d[b] EXCEPT !.keys = EmptyKs]
                                       ELSE d[b]]

\* backendsDivide: give every backend of B its part of s
backendsDivide(B, d, s) == [b \in DOMAIN d |-> IF b \in SeqToSet(B)
                                       THEN [d[b] EXCEPT !.keys = backendsDividePart(B, s, b)]
                                       ELSE d[b]]

\* kdbGet steps 11 to 14 (merge, global plugins, divide), then the poststorage phase
GetMergeAndDivide(k, d, t, g1, g2) ==
    LET dataKs == backendsMerge(sel, d, EmptyKs)
        t1 == Append(t, Call("procgetstorage", "global", "get", g1, gphase'))
        t2 == Append(t1, Call("postgetstorage", "global", "get", g2, gphase'))
    IN IF g1 = "ERROR"
       THEN /\ trace' = t1
            /\ bd' = d
            /\ GetError(SetError(k, "plugin"), d)
       ELSE IF g2 = "ERROR"
       THEN /\ trace' = t2
            /\ bd' = d
            /\ GetError(SetError(k, "plugin"), d)
       ELSE IF ~backendsDivideOk(sel, dataKs)
       THEN /\ trace' = t2
            /\ bd' = d
            /\ GetError(SetError(k, "internal"), d)
       ELSE /\ trace' = t2
            /\ bd' = backendsDivide(sel, d, dataKs)
            /\ pk' = k
            /\ pc' = "poststorage"
            /\ idx' = 1
            /\ UNCHANGED ret

\* runGetPhase for prestorage, storage and poststorage: one iteration of the loop; after
\* the last one the end of the function and the steps of kdbGet up to the next phase
runGetPhase(r, g1, g2) ==
    /\ pc \in {"prestorage", "storage", "specstorage", "poststorage"}
    /\ op = "get"
    /\ LET B == PhaseBackends
           b == B[idx]
           ph == IF pc = "specstorage" THEN "storage" ELSE pc
           called == HasFn(b, "get")
           ok == called /\ CheckResult("runGetPhase", r).ok
           k0 == IF called THEN [pk EXCEPT !.name = b,
                                   !.value = IF bd[b].mountpoint = NoMeta THEN EmptyStr
                                             ELSE bd[b].mountpoint]
                 ELSE pk
           d1 == IF called THEN [bd EXCEPT ![b].keys = PluginGet(pc, b, r, @)] ELSE bd
           k1 == IF ok THEN k0
                 ELSE IF ~called THEN AddWarning(k0, "interface")
                 ELSE AddWarning(k0, "interface")
           succ1 == success /\ ok
           last == idx = Len(B)
           t1 == IF called THEN Append(trace, Call(ph, b, "get", r, ph)) ELSE trace
           mergesNow == last /\ succ1 /\
                        (pc = "specstorage" \/ (pc = "storage" /\ SpecSeq(sel) = <<>>))
       IN /\ gphase' = IF called THEN ph ELSE gphase
          /\ (~mergesNow) => (g1 = "SUCCESS" /\ g2 = "SUCCESS")
          /\ g1 = "ERROR" => g2 = "SUCCESS"
          /\ (~called) => r = "SUCCESS"
          /\ Events(FaultCount(r) + (IF IsFault(g1) \/ IsFault(g2) THEN 1 ELSE 0))
          /\ IF ~last
             THEN /\ idx' = idx + 1
                  /\ success' = succ1
                  /\ pk' = k1
                  /\ bd' = d1
                  /\ trace' = t1
                  /\ UNCHANGED <<pc, ret, ks>>
             ELSE /\ success' = TRUE
                  /\ IF ~succ1
                     THEN /\ GetError(SetError(k1, "interface"), d1)
                          /\ bd' = d1
                          /\ trace' = t1
                          /\ UNCHANGED ks
                     ELSE IF pc = "prestorage"
                     THEN /\ bd' = ClearKeys(sel, d1)
                          /\ pk' = k1
                          /\ pc' = "storage"
                          /\ idx' = 1
                          /\ trace' = t1
                          /\ UNCHANGED <<ret, ks>>
                     ELSE IF pc = "storage" /\ SpecSeq(sel) # <<>>
                     THEN /\ bd' = d1
                          /\ pk' = k1
                          /\ pc' = "specstorage"
                          /\ idx' = 1
                          /\ trace' = t1
                          /\ UNCHANGED <<ret, ks>>
                     ELSE IF pc \in {"storage", "specstorage"}
                     THEN /\ GetMergeAndDivide(k1, d1, t1, g1, g2)
                          /\ UNCHANGED ks
                     ELSE \* poststorage done: steps 16 and 17, return 1
                          /\ ks' = backendsMerge(sel, d1, CutBackends(sel, ks))
                          /\ bd' = d1
                          /\ trace' = t1
                          /\ pk' = [k1 EXCEPT !.name = initialParent.name,
                                                  !.value = ParentMountpointId(sel, d1,
                                                                initialParent.name)]
                          /\ ret' = "1"
                          /\ pc' = "idle"
                          /\ idx' = 1
    /\ UNCHANGED <<mounts, fixed, storage, temp, fresh, ksSync, initialParent, op, sel, pre, gfailedphase>>

(***************************************************************************)
(* kdbSet                                                                  *)
(***************************************************************************)
\* the `error:` exit of kdbSet
SetErrorExit(k, ip) ==
    /\ pk' = [k EXCEPT !.name = ip.name, !.value = ip.value]
    /\ ret' = "-1"
    /\ pc' = "idle"

\* kdbSet, steps 0 to 8: up to the start of the resolver phase
kdbSet(p, g) ==
    /\ Quiet
    /\ op' = "set"
    /\ pre' = Snapshot(p)
    /\ idx' = 1
    /\ success' = TRUE
    /\ LET k == clearErrorAndWarnings([pk EXCEPT !.name = p])
           B == backendsForParentKey(p)
           chk == CheckBackends(B, bd, 0, ks, TRUE)
           uninit == {b \in SeqToSet(B) : ~bd[b].initialized}
           k1 == IF uninit = {} THEN k ELSE AddWarning(k, "interface")
           setKs == chk.ks
           changed == ksSync \/ ksKeyNeedSync(ks)
           globalRuns == changed /\ ~chk.hang /\ chk.init
       IN /\ trace' = IF globalRuns
                       THEN <<Call("presetstorage", "global", "set", g, gphase)>>
                       ELSE <<>>
          /\ (~globalRuns) => g = "SUCCESS"
          /\ Events(1 + FaultCount(g))
          /\ mounts' = IF changed THEN HandleBackends(mounts, B) ELSE mounts
          /\ IF ~changed
             THEN \* steps 1 and 2: nothing to do
                  /\ pk' = k
                  /\ ret' = "0"
                  /\ pc' = "idle"
                  /\ UNCHANGED <<sel, initialParent, ks, bd>>
             ELSE /\ initialParent' = k
                  /\ sel' = B
                  /\ ks' = chk.ks
                  /\ IF chk.hang
                     THEN \* step 4 never leaves its loop
                          /\ pk' = k1
                          /\ pc' = "spin"
                          /\ ret' = "none"
                          /\ UNCHANGED bd
                     ELSE IF ~chk.init
                     THEN /\ SetErrorExit(SetError(k1, "interface"), k)
                          /\ UNCHANGED bd
                     ELSE IF g = "ERROR"
                     THEN \* step 6: the PRESETSTORAGE global plugin failed
                          /\ SetErrorExit(SetError(k1, "plugin"), k)
                          /\ UNCHANGED bd
                     ELSE IF ~backendsDivideOk(B, setKs)
                     THEN /\ SetErrorExit(SetError(k1, "internal"), k)
                          /\ UNCHANGED bd
                     ELSE /\ bd' = backendsDivide(B, bd, setKs)
                          /\ pk' = k1
                          /\ pc' = "resolver"
                          /\ ret' = "none"
    /\ UNCHANGED <<fixed, storage, temp, fresh, ksSync, gphase, gfailedphase>>

\* which plugin function runs a phase of kdbSet
SetFn(ph) == IF ph \in {"resolver", "prestorage", "storage", "poststorage"} THEN "set"
             ELSE IF ph \in {"precommit", "commit", "postcommit"} THEN "commit"
             ELSE "error"

\* phases kdbSet runs with blockErrors = true
BlockedPhases == {"postcommit", "prerollback", "rollback", "postrollback"}

\* kdbSet that goes on to the next phase although a backend failed
NextSetPhaseNoGate(ph, ok) ==
    IF ph = "postcommit" THEN "return"
    ELSE IF ph = "prerollback" THEN "rollback"
    ELSE IF ph = "rollback" THEN "postrollback"
    ELSE IF ph = "postrollback" THEN "return"
    ELSE IF ph = "resolver" THEN "prestorage"
    ELSE IF ph = "prestorage" THEN "storage"
    ELSE IF ph = "storage" THEN "poststorage"
    ELSE IF ph = "poststorage" THEN "precommit"
    ELSE IF ph = "precommit" THEN "commit"
    ELSE IF ~ok THEN "prerollback"
    ELSE "postcommit"

\* kdbSet that runs the storage phase before the prestorage phase
NextSetPhaseStorageFirst(ph, ok) ==
    IF ph = "postcommit" THEN "return"
    ELSE IF ph = "prerollback" THEN "rollback"
    ELSE IF ph = "rollback" THEN "postrollback"
    ELSE IF ph = "postrollback" THEN "return"
    ELSE IF ~ok THEN "prerollback"
    ELSE IF ph = "resolver" THEN "storage"
    ELSE IF ph = "storage" THEN "prestorage"
    ELSE IF ph = "prestorage" THEN "poststorage"
    ELSE IF ph = "poststorage" THEN "precommit"
    ELSE IF ph = "precommit" THEN "commit"
    ELSE "postcommit"

\* kdbSet that returns after a failed phase without the rollback phases
NextSetPhaseNoRollback(ph, ok) ==
    IF ph = "postcommit" THEN "return"
    ELSE IF ph = "prerollback" THEN "rollback"
    ELSE IF ph = "rollback" THEN "postrollback"
    ELSE IF ph = "postrollback" THEN "return"
    ELSE IF ~ok THEN "return"
    ELSE IF ph = "resolver" THEN "prestorage"
    ELSE IF ph = "prestorage" THEN "storage"
    ELSE IF ph = "storage" THEN "poststorage"
    ELSE IF ph = "poststorage" THEN "precommit"
    ELSE IF ph = "precommit" THEN "commit"
    ELSE "postcommit"

\* kdbSet that starts the rollback when the postcommit phase failed
NextSetPhasePostcommitDecides(ph, ok) ==
    IF ph = "postcommit" THEN (IF ok THEN "return" ELSE "prerollback")
    ELSE IF ph = "prerollback" THEN "rollback"
    ELSE IF ph = "rollback" THEN "postrollback"
    ELSE IF ph = "postrollback" THEN "return"
    ELSE IF ~ok THEN "prerollback"
    ELSE IF ph = "resolver" THEN "prestorage"
    ELSE IF ph = "prestorage" THEN "storage"
    ELSE IF ph = "storage" THEN "poststorage"
    ELSE IF ph = "poststorage" THEN "precommit"
    ELSE IF ph = "precommit" THEN "commit"
    ELSE "postcommit"

\* the phase kdbSet runs after phase ph, "return" when it returns
NextSetPhase(ph, ok) ==
    IF ph = "postcommit" THEN "return"
    ELSE IF ph = "prerollback" THEN "rollback"
    ELSE IF ph = "rollback" THEN "postrollback"
    ELSE IF ph = "postrollback" THEN "return"
    ELSE IF ~ok THEN "prerollback"
    ELSE IF ph = "resolver" THEN "prestorage"
    ELSE IF ph = "prestorage" THEN "storage"
    ELSE IF ph = "storage" THEN "poststorage"
    ELSE IF ph = "poststorage" THEN "precommit"
    ELSE IF ph = "precommit" THEN "commit"
    ELSE "postcommit"

\* end of a phase function of kdbSet and the steps of kdbSet up to the next phase;
\* k is the parent key after the loop, succ the loop's result
SetPhaseEnd(ph, k, succ) ==
    LET k1 == IF succ THEN k ELSE SetError(k, "interface")
        k2 == IF ph \in BlockedPhases
              THEN IF succ THEN UnblockErrors(k1) ELSE AddWarning(UnblockErrors(k1), "interface")
              ELSE k1
        nxt == NextSetPhase(ph, succ)
    IN /\ idx' = 1
       /\ success' = TRUE
       /\ IF nxt = "return"
          THEN IF ph = "postcommit"
               THEN /\ pk' = k2
                    /\ ret' = "1"
                    /\ pc' = "idle"
               ELSE SetErrorExit(k2, initialParent)
          ELSE /\ pk' = IF nxt \in BlockedPhases THEN BlockErrors(k2) ELSE k2
               /\ pc' = nxt
               /\ UNCHANGED ret

\* return codes a contract-conforming plugin gives in the resolver phase of a set:
\* it must report when the storage unit was changed since the last get
SetResolverCodes(b) == IF fresh[b] = "fresh" THEN Codes ELSE {"ERROR"}

\* resolveBackendsForSet: one iteration of the loop, and the end of the function
resolveBackendsForSet(r) ==
    /\ pc = "resolver"
    /\ op = "set"
    /\ LET b == sel[idx]
           d0 == [bd EXCEPT ![b].mountpoint = NoMeta]
           called == HasFn(b, "set")
           ok == called /\ CheckResult("resolveBackendsForSet", r).ok
           conflict == called /\ fresh[b] # "fresh"
           \* the plugin writes the identifier of the temporary storage unit
           k0 == IF called
                 THEN [pk EXCEPT !.name = b, !.value = IF ok THEN TempId(b) ELSE EmptyStr]
                 ELSE pk
           k1 == IF conflict THEN SetError(k0, "conflict") ELSE k0
           k2 == IF ~called THEN AddWarning(k1, "interface")
                 ELSE IF r = "NO_UPDATE" THEN AddWarning(k1, "interface")
                 ELSE IF r = "SUCCESS" THEN k1
                 ELSE AddWarning(k1, "interface")
           d1 == IF ok THEN [d0 EXCEPT ![b].mountpoint = k0.value] ELSE d0
           succ1 == success /\ ok
       IN /\ IF called
             THEN /\ r \in SetResolverCodes(b)
                  /\ Events(IF conflict THEN 0 ELSE FaultCount(r))
             ELSE r = "SUCCESS" /\ Events(0)
          /\ bd' = d1
          /\ temp' = [temp EXCEPT ![b] = IF ok THEN [exists |-> TRUE, keys |-> EmptyKs] ELSE @]
          /\ gphase' = IF called THEN "resolver" ELSE gphase
          /\ trace' = IF called THEN Append(trace, Call("resolver", b, "set", r, "resolver"))
                       ELSE trace
          /\ IF idx < Len(sel)
             THEN /\ idx' = idx + 1
                  /\ success' = succ1
                  /\ pk' = k2
                  /\ UNCHANGED <<pc, ret>>
             ELSE SetPhaseEnd("resolver", k2, succ1)
    /\ UNCHANGED <<mounts, fixed, storage, fresh, ks, ksSync, initialParent, op, sel, pre, gfailedphase>>

\* what the backend plugin does to the storage in a phase of a set that succeeds: the
\* storage phase writes the temporary unit, commit makes it the live unit, rollback removes it
PluginTemp(ph, t, keys) ==
    IF ph = "storage" THEN [exists |-> TRUE, keys |-> Stored(keys)]
    ELSE IF ph \in {"commit", "rollback"} THEN NoFile
    ELSE t

\* a commit that does not make the temporary storage unit the live one
PluginStorageKeep(ph, live, t) == live

PluginStorage(ph, live, t) == IF ph = "commit" /\ t.exists THEN t.keys ELSE live

\* an error function has reported a failure in the call in progress
RollbackFailed == \E i \in DOMAIN trace : trace[i].fn = "error" /\ ~trace[i].ok

\* runSetPhase: one iteration of the loop, and the end of the function
runSetPhase(r) ==
    /\ pc \in (SeqToSet(SetPhases) \cup SeqToSet(RollbackPhases)) \ {"resolver"}
    /\ op = "set"
    /\ LET ph == pc
           b == sel[idx]
           called == HasFn(b, SetFn(ph))
           ok == called /\ CheckResult("runSetPhase", r).ok
           k0 == IF called THEN [pk EXCEPT !.name = b,
                                   !.value = IF bd[b].mountpoint = NoMeta THEN EmptyStr
                                             ELSE bd[b].mountpoint]
                 ELSE pk
           k1 == IF ok THEN k0
                 ELSE IF ~called THEN AddWarning(k0, "interface")
                 ELSE AddWarning(k0, "interface")
           succ1 == success /\ ok
           commits == ok /\ ph = "commit" /\ temp[b].exists
       IN /\ IF ~called THEN r = "SUCCESS" /\ Events(0)
             ELSE IF ph \in SeqToSet(RollbackPhases) /\ ~RollbackFailed THEN Events(0)
             ELSE Events(FaultCount(r))
          /\ temp' = [temp EXCEPT ![b] = IF ok THEN PluginTemp(ph, @, bd[b].keys) ELSE @]
          /\ storage' = [storage EXCEPT ![b] = IF ok THEN PluginStorage(ph, @, temp[b]) ELSE @]
          /\ gphase' = IF called THEN ph ELSE gphase
          /\ trace' = IF called THEN Append(trace, Call(ph, b, SetFn(ph), r, ph)) ELSE trace
          /\ IF idx < Len(sel)
             THEN /\ idx' = idx + 1
                  /\ success' = succ1
                  /\ pk' = k1
                  /\ UNCHANGED <<pc, ret>>
             ELSE SetPhaseEnd(ph, k1, succ1)
    /\ UNCHANGED <<mounts, fixed, fresh, ks, ksSync, bd, initialParent, op, sel, pre, gfailedphase>>

(***************************************************************************)
(* Specification                                                           *)
(***************************************************************************)
Next ==
    \/ \E k \in KeyIdx, v \in Values : UserAppend(k, v)
    \/ \E k \in KeyIdx : UserRemove(k)
    \/ \E b \in Backends, k \in KeyIdx, v \in Values : OtherCommit(b, k, v)
    \/ \E b \in Backends : OtherRemove(b)
    \/ \E p \in Parents : kdbGet(p)
    \/ \E r \in Codes : initBackends(r)
    \/ \E r \in Codes : resolveBackendsForGet(r)
    \/ \E r \in Codes, g1, g2 \in {"SUCCESS", "ERROR"} : runGetPhase(r, g1, g2)
    \/ \E p \in Parents, g \in {"SUCCESS", "ERROR"} : kdbSet(p, g)
    \/ \E r \in Codes : resolveBackendsForSet(r)
    \/ \E r \in Codes : runSetPhase(r)

Spec == Init /\ [][Next]_vars

\* the same handle when the backend plugin of user:/a is a plugin without a set function
SpecNoSet == InitNoSet /\ [][Next]_vars

(***************************************************************************)
(* The switch over a plugin's return code, on its own: a backend plugin    *)
(* has returned ccode to the function csite, whose flag `success` is cflag *)
(***************************************************************************)
InitCodes ==
    /\ HandleInit
    /\ noset = {}
    /\ csite \in Sites
    /\ ccode \in Codes \cup OtherCodes
    /\ cflag \in BOOLEAN
    /\ cverdict = NoVerdict
    /\ KsIdle
    /\ OpenIdle

\* the switch statement, and what is left of `success` after it
CheckReturnCode ==
    /\ cverdict = NoVerdict
    /\ cverdict' = CheckResult(csite, ccode)
    /\ cflag' = (cflag /\ CheckResult(csite, ccode).ok)
    /\ UNCHANGED <<handleVars, noset, csite, ccode, ksVars, openVars>>

NextCodes == CheckReturnCode

SpecCodes == InitCodes /\ [][NextCodes]_vars

(***************************************************************************)
(* The tests of the KeySet class: keys are appended to a KeySet in some    *)
(* order and the KeySet is iterated; two keys are compared                 *)
(***************************************************************************)
\* at most so many keys are appended to a KeySet
MaxAppend == 3

\* Key ("user/s/1", KEY_END) and the like
Key(parts, owner) == [ns |-> "user", parts |-> parts, owner |-> owner]

\* the vector `solution` of the tests: the keys in the order the iteration has to give
Solution == << Key(<<"s", "1">>, ""), Key(<<"s", "1">>, "markus"), Key(<<"s", "1">>, "max"),
               Key(<<"s", "2">>, ""), Key(<<"x", "y">>, ""), Key(<<"x", "y", "z">>, "") >>

TestKeys == SeqToSet(Solution)

\* the sequences of at most n keys
KeySeqs(n) == UNION {[1..m -> TestKeys] : m \in 0..n}

InitKs ==
    /\ HandleInit
    /\ noset = {}
    /\ CodesIdle
    /\ perm \in KeySeqs(MaxAppend)
    /\ pos = 0
    /\ cks = <<>>
    /\ cmp = NoCmp
    /\ OpenIdle

\* ks.append (permutation[pos]): the value of the entry tells the append it came with
append ==
    /\ pos < Len(perm)
    /\ pos' = pos + 1
    /\ cks' = ksAppendKey(cks, [key |-> perm[pos + 1], val |-> pos + 1])
    /\ UNCHANGED <<handleVars, noset, codeVars, openVars, perm, cmp>>

\* test_cmp: two keys are compared, one of which may be the key without a name
test_cmp(a, b) ==
    /\ pos = Len(perm)
    /\ ~cmp.done
    /\ cmp' = [a |-> a, b |-> b, r |-> keyCmp(a, b), done |-> TRUE]
    /\ UNCHANGED <<handleVars, noset, codeVars, openVars, perm, pos, cks>>

NextKs ==
    \/ append
    \/ \E a, b \in TestKeys \cup {EmptyKey} : test_cmp(a, b)

SpecKs == InitKs /\ [][NextKs]_vars

(***************************************************************************)
(* kdbOpen and kdbClose.  The mountpoint definitions the bootstrap reads   *)
(* are chosen at the start; whether a plugin can be opened or closed is    *)
(* chosen by the environment.                                              *)
(***************************************************************************)
\* at most so many mountpoints are defined below system:/elektra/mountpoints
MaxEntries == 2

\* mountpoint names that are defined, in the order of their definitions, and what a
\* definition holds: "ok" a backend reference and plugins, "nobackend" keys but no backend
\* reference, "nokeys" no key below the key of the mountpoint
EntryOrder == <<"proc:/", "system:/elektra/x", "user:/", "user:/a">>
EntryDefs == {"ok", "nobackend", "nokeys"}

\* the definitions for the names S with the contents d, in key order
ConfOf(S, d) ==
    LET names == SelectSeq(EntryOrder, LAMBDA n : n \in S)
    IN [i \in DOMAIN names |-> [name |-> names[i], def |-> d[names[i]]]]

\* the key of a mountpoint
KeyOf(name) == [ns |-> MountPath(name)[1], parts |-> Tail(MountPath(name)), owner |-> ""]

\* addMountpoint: the backend key with its BackendData is appended to the KeySet
addMountpoint(B, name, origin, backend, plugins) ==
    ksAppendKey(B, [key |-> KeyOf(name), name |-> name, origin |-> origin,
                    backend |-> backend, plugins |-> plugins, initialized |-> FALSE])

\* addElektraMountpoint: system:/elektra with the bootstrap resolver and storage
addElektraMountpoint(B, inst) ==
    addMountpoint(B, "system:/elektra", "hardcoded", <<inst, "backend">>,
                  << <<inst, "resolver">>, <<inst, "storage">> >>)

\* a parseAndAddMountpoint that reserves no name
ReservedNever(name) == FALSE

\* parseAndAddMountpoint: keyIsBelowOrSame (elektraRoot, mountpoint) != 0
Reserved(name) == keyIsBelowOrSame(<<"system", "elektra">>, MountPath(name))

\* no plugin: the value of the key a lookup did not find
NoPlugin == <<"none", "none">>

\* parseAndAddMountpoint for the definition e; o: openPlugins can open the plugins.
\* The backend plugin is looked up in `definition`, from which the keys below `plugins`
\* were cut, with a test of backendRef after it: no key is found and the lookup is not
\* seen to fail.
parseAndAddMountpoint(M, e, o) ==
    IF Reserved(e.name)
    THEN [ok |-> FALSE, warn |-> {<<"reserved", e.name>>}, mountpoints |-> M]
    ELSE IF e.def # "ok"
    THEN [ok |-> FALSE, warn |-> {<<"nobackend", e.name>>}, mountpoints |-> M]
    ELSE IF ~o
    THEN [ok |-> FALSE, warn |-> {<<"plugin", e.name>>}, mountpoints |-> M]
    ELSE [ok |-> TRUE, warn |-> {},
          mountpoints |-> addMountpoint(M, e.name, "config", NoPlugin,
                                        << <<e.name, "#0">> >>)]

\* the plugins closeBackends closes, in the order in which it closes them
RECURSIVE PluginList(_)
PluginList(B) == IF B = <<>> THEN <<>> ELSE Head(B).plugins \o PluginList(Tail(B))

\* the plugins that were opened for the backends B: those in the KeySets `plugins` and
\* the backend plugins
PluginsOf(B) ==
    SeqToSet(PluginList(B)) \cup ({B[i].backend : i \in DOMAIN B} \ {NoPlugin})

\* the global plugins of a handle
GlobalPlugins == {<<"global", "#0">>}

\* roots that lack dir:/
RootNamespacesNoDir == <<"spec", "system", "user">>

\* addHardcodedMountpoints: the namespaces addRootMountpoint is called for
RootNamespaces == <<"spec", "system", "user", "dir">>

\* the name of the root of a namespace
RootName(ns) == CASE ns = "spec" -> "spec:/" [] ns = "system" -> "system:/"
                  [] ns = "user" -> "user:/" [] ns = "dir" -> "dir:/"

\* addRootMountpoint for the namespaces N: all with the same backend, resolver and storage
RECURSIVE addRootMountpoints(_, _)
addRootMountpoints(B, N) ==
    IF N = <<>> THEN B
    ELSE addRootMountpoints(addMountpoint(B, RootName(Head(N)), "hardcoded",
                                          <<"default", "backend">>,
                                          << <<"default", "resolver">>,
                                             <<"default", "storage">> >>),
                            Tail(N))

\* where addHardcodedMountpoints can fail to open a plugin; "elektra" is the failure of
\* addElektraMountpoint, whose result it does not look at
HardcodedFailures == {"none", "elektra", "resolver", "modules", "version"}

\* addHardcodedMountpoints: the KeySet of backends when it returns
HardcodedBackends(B, f) ==
    LET b1 == IF f = "elektra" THEN B ELSE addElektraMountpoint(B, "elektra")
        b2 == addRootMountpoints(b1, RootNamespaces)
        b3 == addMountpoint(b2, "system:/elektra/modules", "hardcoded",
                            <<"modules", "modules">>, <<>>)
        b4 == addMountpoint(b3, "system:/elektra/modules/backend", "hardcoded",
                            <<"modules", "backend">>, <<>>)
        b5 == addMountpoint(b4, "system:/elektra/version", "hardcoded",
                            <<"version", "version">>, <<>>)
    IN IF f = "resolver" THEN b1
       ELSE IF f = "modules" THEN b2
       ELSE IF f = "version" THEN b4
       ELSE b5

InitOpen ==
    /\ HandleInit
    /\ noset = {}
    /\ CodesIdle
    /\ KsIdle
    /\ \E S \in SUBSET SeqToSet(EntryOrder) :
          /\ Cardinality(S) <= MaxEntries
          /\ \E d \in [S -> EntryDefs] : conf = ConfOf(S, d)
    /\ opc = "start"
    /\ hb = <<>>
    /\ parsed = <<>>
    /\ pidx = 1
    /\ perr = FALSE
    /\ ekey = NewErrorKey
    /\ pclosed = <<>>
    /\ popened = {}
    /\ ccur = 1
    /\ ofail = FALSE
    /\ oret = "none"

\* the `error:` exit of kdbOpen: kdbClose (handle, closeKey), return NULL
OpenError(B) ==
    /\ hb' = B
    /\ ofail' = TRUE
    /\ ccur' = 1
    /\ opc' = "closing"

\* kdbOpen, steps 1 to 5: the handle, the bootstrap mountpoint, the bootstrap, the global
\* plugins and the contract; boot: no step fails
kdbOpen(boot) ==
    /\ opc = "start"
    /\ IF boot
       THEN /\ hb' = addElektraMountpoint(<<>>, "boot")
            /\ popened' = PluginsOf(addElektraMountpoint(<<>>, "boot"))
            /\ opc' = "parse"
            /\ UNCHANGED <<ekey, ofail, ccur>>
       ELSE /\ ekey' = [ekey EXCEPT !.err = "installation"]
            /\ OpenError(<<>>)
            /\ UNCHANGED popened
    /\ UNCHANGED <<handleVars, noset, codeVars, ksVars, conf, parsed, pidx, perr, pclosed,
                   oret>>

\* elektraMountpointsParse: one iteration of the loop for a key directly below
\* system:/elektra/mountpoints and the one for the last key below it; after the last
\* definition the end of the function and step 7 of kdbOpen.
\* o: the plugins of the definition can be opened; c: the plugins that are closed report
\* no error
elektraMountpointsParse(o, c) ==
    /\ opc = "parse"
    /\ IF pidx <= Len(conf)
       THEN LET e == conf[pidx]
                res == parseAndAddMountpoint(parsed, e, o)
            IN /\ c
               /\ (Reserved(e.name) \/ e.def # "ok") => o
               /\ parsed' = res.mountpoints
               /\ popened' = popened \cup PluginsOf(res.mountpoints)
               /\ perr' = (perr \/ ~res.ok)
               /\ IF e.def = "nokeys"
                  THEN \* i = next - 1 is the key of the definition again
                       /\ ekey' = [ekey EXCEPT !.warn = @ \cup res.warn]
                       /\ opc' = "hang"
                       /\ UNCHANGED pidx
                  ELSE \* the last key of the definition is reported as a stray key
                       /\ ekey' = [ekey EXCEPT !.warn = @ \cup res.warn
                                                        \cup {<<"stray", e.name>>}]
                       /\ pidx' = pidx + 1
                       /\ UNCHANGED opc
               /\ UNCHANGED <<hb, pclosed, ccur, ofail>>
       ELSE /\ o
            /\ UNCHANGED <<parsed, perr, pidx, popened>>
            /\ IF perr
               THEN \* closeBackends (mountpoints, errorKey); return NULL
                    /\ pclosed' = pclosed \o
                          (IF c THEN PluginList(parsed)
                           ELSE SubSeq(PluginList(parsed), 1,
                                       IF PluginList(parsed) = <<>> THEN 0 ELSE 1))
                    /\ ekey' = [ekey EXCEPT !.err = "installation"]
                    /\ OpenError(hb)
               ELSE \* step 7: closeBackends (handle->backends, errorKey)
                    IF c
                    THEN /\ pclosed' = pclosed \o PluginList(hb)
                         /\ hb' = parsed
                         /\ opc' = "hardcoded"
                         /\ UNCHANGED <<ekey, ccur, ofail>>
                    ELSE /\ pclosed' = Append(pclosed, PluginList(hb)[1])
                         /\ ekey' = ekey
                         /\ OpenError(hb)
    /\ UNCHANGED <<handleVars, noset, codeVars, ksVars, conf, oret>>

\* kdbOpen step 8 and the return of the handle
addHardcodedMountpoints(f) ==
    /\ opc = "hardcoded"
    /\ popened' = popened \cup PluginsOf(HardcodedBackends(<<>>, f))
    /\ IF f \in {"none", "elektra"}
       THEN /\ hb' = HardcodedBackends(hb, f)
            /\ opc' = "open"
            /\ oret' = "handle"
            /\ ekey' = IF f = "elektra" THEN [ekey EXCEPT !.err = "installation"] ELSE ekey
            /\ UNCHANGED <<ccur, ofail>>
       ELSE /\ ekey' = [ekey EXCEPT !.err = "installation"]
            /\ OpenError(HardcodedBackends(hb, f))
            /\ UNCHANGED oret
    /\ UNCHANGED <<handleVars, noset, codeVars, ksVars, conf, parsed, pidx, perr, pclosed>>

\* kdbClose of a handle, up to the end of closeBackends: one iteration of the inner loop of
\* closeBackends; it returns when elektraPluginClose reports an error
closeBackends(r) ==
    /\ opc \in {"open", "closing"}
    /\ IF ccur <= Len(PluginList(hb))
       THEN /\ pclosed' = Append(pclosed, PluginList(hb)[ccur])
            /\ IF r = "ERROR"
               THEN /\ opc' = "globals"
                    /\ ekey' = [ekey EXCEPT !.warn = @ \cup {<<"close", PluginList(hb)[ccur]>>}]
                    /\ UNCHANGED ccur
               ELSE /\ opc' = "closing"
                    /\ ccur' = ccur + 1
                    /\ UNCHANGED ekey
       ELSE /\ r = "SUCCESS"
            /\ opc' = "globals"
            /\ UNCHANGED <<pclosed, ccur, ekey>>
    /\ UNCHANGED <<handleVars, noset, codeVars, ksVars, conf, hb, parsed, pidx, perr, ofail,
                   oret, popened>>

\* kdbClose after closeBackends: the global plugins and the modules are closed, whatever
\* closing them reports, and 0 is returned; hb keeps what handle->backends was.
\* A kdbOpen that closes the handle it could not open returns NULL then.
kdbClose ==
    /\ opc = "globals"
    /\ pclosed' = pclosed \o <<CHOOSE g \in GlobalPlugins : TRUE>>
    /\ opc' = IF ofail THEN "failed" ELSE "closed"
    /\ oret' = IF ofail THEN "NULL" ELSE "0"
    /\ UNCHANGED <<handleVars, noset, codeVars, ksVars, conf, hb, parsed, pidx, perr, ekey,
                   ccur, ofail, popened>>

\* kdbClose of the NULL kdbOpen returned
kdbCloseNull ==
    /\ opc = "failed"
    /\ opc' = "closednull"
    /\ oret' = "-1"
    /\ UNCHANGED <<handleVars, noset, codeVars, ksVars, conf, hb, parsed, pidx, perr, ekey,
                   pclosed, ccur, ofail, popened>>

NextOpen ==
    \/ \E boot \in BOOLEAN : kdbOpen(boot)
    \/ \E o, c \in BOOLEAN : elektraMountpointsParse(o, c)
    \/ \E f \in HardcodedFailures : addHardcodedMountpoints(f)
    \/ \E r \in {"SUCCESS", "ERROR"} : closeBackends(r)
    \/ kdbClose
    \/ kdbCloseNull

SpecOpen == InitOpen /\ [][NextOpen]_vars

TypeOK ==
    /\ ret \in {"none", "1", "0", "-1"}
    /\ op \in {"none", "get", "set"}
    /\ \A b \in Backends : fresh[b] \in {"none", "fresh", "stale"}
    /\ ks \in KeySets
    /\ nevents \in 0..MaxEvents

(***************************************************************************)
(* Observations on the call in progress or the call that returned last     *)
(***************************************************************************)
\* the call o has returned, and nothing was changed since
Returned(o) == pc = "idle" /\ op = o /\ ret # "none"

\* the backends backendsForParentKey selected for the call
Selected == SeqToSet(backendsForParentKey(pre.parent))

\* the calls of backend plugin functions among the plugin calls of the call
BackendCalls == {i \in DOMAIN trace : trace[i].b \in DOMAIN bd}

Invoked(ph) == \E i \in BackendCalls : trace[i].phase = ph
InvokedFor(ph, b) == \E i \in BackendCalls : trace[i].phase = ph /\ trace[i].b = b
SucceededFor(ph, b) ==
    \E i \in BackendCalls : trace[i].phase = ph /\ trace[i].b = b /\ trace[i].ok
FailedIn(ph) == \E i \in BackendCalls : trace[i].phase = ph /\ ~trace[i].ok

\* position of phase ph in the sequence of phases seq
PhaseNo(seq, ph) == CHOOSE i \in DOMAIN seq : seq[i] = ph

\* the phases of kdbSet whose failure decides the outcome
DecidingPhases == {"resolver", "prestorage", "storage", "poststorage", "precommit", "commit"}

\* all phases of kdbSet in the order of the code
SetOrder == SetPhases \o RollbackPhases

\* the KeySet the call was given carries a sync flag
PreChanged == pre.ksSync \/ \E k \in DOMAIN pre.ks : pre.ks[k].sync

RollbackRan == \E ph \in SeqToSet(RollbackPhases) : Invoked(ph)

(***************************************************************************)
(* Claims                                                                  *)
(***************************************************************************)
\* C1: once a kdbSet in which a backend reported an error in one of the phases resolver to
\* commit has returned -1, the persistent storage of every selected backend is what it was
\* before the call.
C1_Atomicity ==
    (Returned("set") /\ ret = "-1" /\ \E ph \in DecidingPhases : FailedIn(ph))
        => \A b \in Selected : storage[b] = pre.storage[b]

\* a kdbSet returned -1 after the commit phase failed for one backend, and the storage of
\* another backend is no longer what it was
C1_PartialCommit ==
    /\ Returned("set")
    /\ ret = "-1"
    /\ FailedIn("commit")
    /\ \E b \in Selected : SucceededFor("commit", b) /\ storage[b] # pre.storage[b]

\* C2: within a kdbSet the commit phase is invoked for no backend unless every selected
\* backend has succeeded in each of the phases resolver, prestorage, storage, poststorage
\* and precommit of that call.
C2_CommitGate ==
    (op = "set" /\ Invoked("commit"))
        => \A ph \in DecidingPhases \ {"commit"} : \A b \in Selected : SucceededFor(ph, b)

C2_CommitReached == op = "set" /\ Invoked("commit") /\ Cardinality(Selected) = 2

\* C3: a kdbSet with changed keys, issued after another handle committed a change to the
\* storage of a selected backend and without a kdbGet in between, returns -1, leaves a
\* conflicting-state error on the parent key and leaves the storage as the other handle
\* committed it.
C3_ConflictDetected ==
    (Returned("set") /\ PreChanged /\ Invoked("resolver")
        /\ \E b \in Selected : pre.fresh[b] = "stale")
        => (ret = "-1" /\ pk.err = "conflict" /\ storage = pre.storage)

\* the kdbSet was rejected and the storage is untouched, but the error entry of the parent
\* key is gone: only the details the plugin recorded with it are left
C3_ErrorEntryLost ==
    /\ Returned("set")
    /\ \E b \in Selected : pre.fresh[b] = "stale"
    /\ ret = "-1"
    /\ storage = pre.storage
    /\ pk.err = "none"
    /\ pk.errInfo = "conflict"

\* a selected backend was not initialized when the call started
NotInitialized == \E b \in Selected : ~pre.bd[b].initialized

\* a function of a backend plugin that writes was invoked
WriteInvoked == \E i \in BackendCalls : trace[i].fn \in {"set", "commit"}

\* C4 as claimed: kdbSet on a handle on which kdbGet was never called for the parent fails
\* with a conflicting-state error whatever the KeySet holds, and invokes no write.
C4_NoGetConflict ==
    (Returned("set") /\ NotInitialized)
        => (ret = "-1" /\ pk.err = "conflict" /\ ~WriteInvoked)

\* C4: a kdbSet that returns while a selected backend is not initialized invokes no plugin
\* function and changes no storage; if the KeySet or one of its keys carries the sync flag it
\* returns -1 with an interface error, otherwise it returns 0 without an error.
C4_NoGetInterfaceError ==
    (Returned("set") /\ NotInitialized)
        => /\ trace = <<>>
           /\ storage = pre.storage
           /\ IF PreChanged THEN ret = "-1" /\ pk.err = "interface"
              ELSE ret = "0" /\ pk.err = "none"

C4_RejectedWithoutGet ==
    /\ Returned("set")
    /\ \A b \in Backends : ~pre.bd[b].initialized
    /\ PreChanged
    /\ ret = "-1"
    /\ pk.err = "interface"

\* C5: within a kdbSet the backend functions are invoked in the order resolver, prestorage,
\* storage, poststorage, precommit, commit, postcommit; a function is invoked for a phase
\* only after the function of every selected backend was invoked for the phase before it;
\* a kdbSet that returns 1 ran all seven phases for every selected backend.
C5_SetPhaseOrder ==
    op = "set" =>
        /\ \A i, j \in BackendCalls :
              i < j => PhaseNo(SetOrder, trace[i].phase) <= PhaseNo(SetOrder, trace[j].phase)
        /\ \A j \in BackendCalls :
              LET n == PhaseNo(SetOrder, trace[j].phase)
              IN (1 < n /\ n <= Len(SetPhases)) =>
                    \A b \in Selected :
                        \E i \in BackendCalls :
                            i < j /\ trace[i].phase = SetPhases[n - 1] /\ trace[i].b = b
        /\ (Returned("set") /\ ret = "1") =>
              \A n \in DOMAIN SetPhases : \A b \in Selected : InvokedFor(SetPhases[n], b)

C5_AllPhasesRan ==
    /\ Returned("set")
    /\ ret = "1"
    /\ Cardinality(Selected) = 2
    /\ Invoked("postcommit")

\* C6: within a kdbGet the backend functions are invoked in the order init, resolver,
\* prestorage, storage, poststorage; the resolver phase starts only when every selected
\* backend is initialized, the prestorage phase only when every selected backend was
\* resolved, a later phase only when the phase before it was run for every backend that is
\* updated; if init fails for a backend no resolver call is made.
C6_GetPhaseOrder ==
    op = "get" =>
        /\ \A i, j \in BackendCalls :
              i < j => PhaseNo(GetPhases, trace[i].phase) <= PhaseNo(GetPhases, trace[j].phase)
        /\ Invoked("resolver") => \A b \in Selected : bd[b].initialized
        /\ Invoked("prestorage") => \A b \in Selected : InvokedFor("resolver", b)
        /\ \A j \in BackendCalls :
              LET n == PhaseNo(GetPhases, trace[j].phase)
              IN n > 3 => /\ InvokedFor(GetPhases[n - 1], trace[j].b)
                          /\ \A b \in SeqToSet(sel) : InvokedFor(GetPhases[n - 1], b)
        /\ FailedIn("init") => ~Invoked("resolver")

C6_AllPhasesRan ==
    /\ Returned("get")
    /\ ret = "1"
    /\ Cardinality(Selected) = 2
    /\ Invoked("init")
    /\ Invoked("poststorage")

\* C7: when a kdbSet has returned, the rollback phases were run if and only if a backend
\* failed in one of the phases resolver to commit; then the error function of every selected
\* backend was invoked for prerollback, rollback and postrollback, in this order and after
\* all other functions, and the call returned -1.  A kdbSet that returned -1 without
\* reaching the resolver phase invoked no backend function.
C7_RollbackCoverage ==
    Returned("set") =>
        /\ RollbackRan <=> \E ph \in DecidingPhases : FailedIn(ph)
        /\ RollbackRan =>
              /\ ret = "-1"
              /\ \A n \in DOMAIN RollbackPhases : \A b \in Selected :
                    \E i \in BackendCalls : /\ trace[i].phase = RollbackPhases[n]
                                            /\ trace[i].b = b
                                            /\ trace[i].fn = "error"
              /\ \A i, j \in BackendCalls :
                    i < j => PhaseNo(SetOrder, trace[i].phase) <= PhaseNo(SetOrder, trace[j].phase)
        /\ (ret = "-1" /\ ~Invoked("resolver")) => BackendCalls = {}

C7_RolledBack ==
    /\ Returned("set")
    /\ FailedIn("precommit")
    /\ Cardinality(Selected) = 2
    /\ Invoked("postrollback")
    /\ ret = "-1"

\* the init function of backend b reported read-only, every selected backend is
\* initialized, and the KeySet of the call has a changed key below the mountpoint of b
ReadOnlyCase(b) ==
    /\ b \in Selected
    /\ pre.bd[b].initRo
    /\ \A c \in Selected : pre.bd[c].initialized
    /\ \E k \in DOMAIN pre.ks : pre.ks[k].sync /\ keyIsBelowOrSame(MountPath(b), KeyPath[k])

\* C8: a kdbSet with changed keys below the mountpoint of a backend whose init reported
\* read-only invokes neither the set nor the commit function of that backend, does not
\* change its storage, and returns 1 when no plugin reports a failure.
C8_ReadOnlyRespected ==
    \A b \in Backends :
        (op = "set" /\ ReadOnlyCase(b)) =>
            /\ pc # "spin"
            /\ \A i \in BackendCalls : trace[i].b = b => trace[i].fn \notin {"set", "commit"}
            /\ storage[b] = pre.storage[b]
            /\ (Returned("set") /\ \A i \in DOMAIN trace : trace[i].ok) => ret = "1"

\* C9: after kdbSet returned 1 neither the KeySet nor a key in it carries the sync flag, and
\* a kdbSet repeated at once with the unmodified KeySet returns 0 and runs no phase.
C9_SyncCleared ==
    /\ (Returned("set") /\ ret = "1") => (~ksSync /\ \A k \in DOMAIN ks : ~ks[k].sync)
    /\ (Returned("set") /\ pre.op = "set" /\ pre.ret = "1") => (ret = "0" /\ trace = <<>>)

\* C10: a kdbSet given a KeySet without any sync flag returns 0, invokes no plugin function
\* and leaves the storage, the temporary storage, the KeySet, the data of the backends and
\* the state of the plugins as they were; of the parent key only the error and the warnings
\* are cleared.
C10_ChangeDetection ==
    (Returned("set") /\ ~pre.ksSync /\ \A k \in DOMAIN pre.ks : ~pre.ks[k].sync)
        => /\ ret = "0"
           /\ trace = <<>>
           /\ storage = pre.storage
           /\ temp = pre.temp
           /\ fresh = pre.fresh
           /\ ks = pre.ks
           /\ ksSync = pre.ksSync
           /\ bd = pre.bd
           /\ gphase = pre.gphase
           /\ pk = [pre.pk EXCEPT !.name = pre.parent, !.err = "none", !.errInfo = "none",
                                  !.warn = {}]

C10_NothingToDo ==
    /\ Returned("set")
    /\ ret = "0"
    /\ pre.pk.err # "none"
    /\ \E b \in Backends : pre.bd[b].initialized

\* names and values of the keys of a KeySet
KeyValues(s) == [k \in DOMAIN s |-> s[k].val]

\* C11: when kdbSet has returned -1 the caller's KeySet holds the keys and values it held
\* when the call started, whichever step failed.
C11_KeySetRestored ==
    (Returned("set") /\ ret = "-1") => KeyValues(ks) = KeyValues(pre.ks)

\* a kdbSet with a non-empty KeySet returned -1 after a backend failed in the storage phase
C11_FailedInStorage ==
    /\ Returned("set")
    /\ ret = "-1"
    /\ FailedIn("storage")
    /\ pre.ks # EmptyKs
    /\ KeyValues(ks) = KeyValues(pre.ks)

Marked == {b \in Selected : bd[b].needsupdate}

\* plugin calls of the phases after the resolver phase of a kdbGet, global plugins included
LaterCalls == {i \in DOMAIN trace : trace[i].phase \notin {"init", "resolver"}}

\* C13: once the resolver phase of a kdbGet succeeded for every selected backend: if no
\* backend is marked as needing an update the call has returned 0, no prestorage, storage or
\* poststorage function and no global plugin was invoked and the result KeySet is as it was;
\* otherwise the later phases are invoked for marked backends only, and all of them when the
\* call returns 1.
C13_ShortCircuit ==
    (op = "get" /\ pc \notin {"init", "resolver"}
        /\ \A b \in Selected : SucceededFor("resolver", b))
        => /\ Marked = {} => (Returned("get") /\ ret = "0" /\ LaterCalls = {} /\ ks = pre.ks)
           /\ \A i \in LaterCalls : trace[i].b \in Marked \cup {"global"}
           /\ (Returned("get") /\ ret = "1") =>
                 \A b \in Marked : \A ph \in {"prestorage", "storage", "poststorage"} :
                     InvokedFor(ph, b)

\* a kdbGet returned 1 after the later phases ran for one of two selected backends
C13_OnlyMarkedRan ==
    /\ Returned("get")
    /\ ret = "1"
    /\ Cardinality(Selected) = 2
    /\ Cardinality(Marked) = 1
    /\ LaterCalls # {}

\* C14: a kdbGet that follows a kdbGet of the same parent key that returned 1 or 0, with no
\* change to the storage or the KeySet in between, returns 0 and leaves the result KeySet as
\* it was, provided no plugin reports a failure in it.
C14_GetIdempotent ==
    (Returned("get") /\ pre.op = "get" /\ pre.ret \in {"0", "1"} /\ pre.pk.name = pre.parent
        /\ \A i \in DOMAIN trace : trace[i].ok)
        => (ret = "0" /\ ks = pre.ks)

\* a second kdbGet of the same parent key returned 0 after the first had returned 1
C14_SecondGetUnchanged ==
    /\ Returned("get")
    /\ pre.op = "get"
    /\ pre.ret = "1"
    /\ pre.pk.name = pre.parent
    /\ pre.ks # EmptyKs
    /\ ret = "0"

\* what kdbGet of parent p returns on a handle that kdbOpen just created, given an empty
\* KeySet, when no plugin fails: init, resolver (every backend needs an update), storage,
\* merge, divide, and steps 16a and 16b
KdbGetFresh(p) ==
    LET B == backendsForParentKey(p)
        d0 == ClearKeys(B, [b \in Backends |-> NewBackendData])
        d1 == [b \in Backends |->
                  IF b \in SeqToSet(B)
                  THEN [d0[b] EXCEPT !.keys = PluginGet("storage", b, "SUCCESS", @)]
                  ELSE d0[b]]
        d2 == backendsDivide(B, d1, backendsMerge(B, d1, EmptyKs))
    IN backendsMerge(B, d2, CutBackends(B, EmptyKs))

\* every key of KeySet s is at or below parent key p
AllBelow(s, p) == \A k \in DOMAIN s : keyIsBelowOrSame(MountPath(p), KeyPath[k])

\* C15: after a kdbSet of a KeySet K, all of whose keys are at or below the parent key P,
\* has returned 1, a kdbGet of P on a fresh handle yields below P the names and values of K.
C15_RoundTrip ==
    (Returned("set") /\ ret = "1" /\ AllBelow(pre.ks, pre.parent))
        => KeyValues(ksBelow(KdbGetFresh(pre.parent), MountPath(pre.parent)))
               = KeyValues(pre.ks)

\* a kdbSet of two keys, one of them with a new value, returned 1
C15_WrittenAndReadBack ==
    /\ Returned("set")
    /\ ret = "1"
    /\ ksGetSize(pre.ks) = 2
    /\ \E k \in DOMAIN pre.ks : pre.ks[k].val = 2
    /\ AllBelow(pre.ks, pre.parent)
    /\ KeyValues(KdbGetFresh(pre.parent)) = KeyValues(pre.ks)

\* the mountpoint a key belongs to
Owner(k) == backendsFindParent(BackendSeq, KeyPath[k])

\* C16: when kdbGet has returned 1, for every backend that went through the storage phases
\* the keys of the result KeySet that belong to its mountpoint are the keys the backend holds
\* after poststorage; a key of that mountpoint that was in the result KeySet before the call
\* and that the backend no longer produces is not in the result KeySet.
C16_KeysReplaced ==
    (Returned("get") /\ ret = "1")
        => \A b \in SeqToSet(sel) :
              /\ backendsDividePart(BackendSeq, ks, b) = bd[b].keys
              /\ \A k \in DOMAIN pre.ks :
                    (Owner(k) = b /\ k \notin DOMAIN bd[b].keys) => k \notin DOMAIN ks

\* a kdbGet returned 1 and a key that the backend no longer produces is gone from the result
C16_DeletedKeyVanished ==
    /\ Returned("get")
    /\ ret = "1"
    /\ \E k \in DOMAIN pre.ks :
          /\ Owner(k) \in SeqToSet(sel)
          /\ k \notin DOMAIN bd[Owner(k)].keys
          /\ k \notin DOMAIN ks

\* C17: every key that is in the result KeySet before a kdbGet and is not at or below the
\* parent key is in the result KeySet, with the same value, after the kdbGet has returned.
C17_OutsidePreserved ==
    Returned("get")
        => \A k \in DOMAIN pre.ks :
              ~keyIsBelowOrSame(MountPath(pre.parent), KeyPath[k])
                  => (k \in DOMAIN ks /\ ks[k].val = pre.ks[k].val)

\* C18: right after a kdbGet or a kdbSet has cleared the parent key, the parent key carries
\* no error and no warning of an earlier call; after a call that returned 1 or 0 it carries
\* no error, also when the postcommit phase of the kdbSet failed.
C18_ErrorIsolation ==
    /\ (op = "get" /\ pc = "init" /\ idx = 1)
          => (pk.err = "none" /\ pk.errInfo = "none" /\ pk.warn = {})
    /\ (op = "set" /\ pc = "resolver" /\ idx = 1)
          => (pk.err = "none" /\ pk.errInfo = "none" /\ pk.warn = {})
    /\ (Returned("set") /\ ret = "0")
          => (pk.err = "none" /\ pk.errInfo = "none" /\ pk.warn = {})
    /\ ((Returned("get") \/ Returned("set")) /\ ret \in {"0", "1"})
          => (pk.err = "none" /\ pk.errInfo = "none")

\* a call returned 1 or 0 on a parent key that carried the error of an earlier call
C18_EarlierErrorCleared ==
    /\ Returned("get") \/ Returned("set")
    /\ ret \in {"0", "1"}
    /\ pre.pk.errInfo # "none"
    /\ pk.err = "none"

\* C19: a kdbSet returns 1 exactly when every selected backend succeeded in each of the
\* phases resolver to commit; a failure in postcommit leaves the return value 1 and starts no
\* rollback; once the rollback is started all three rollback phases are run for every
\* selected backend, and a failure in one of them is recorded as a warning, not as an error.
C19_OutcomeDecided ==
    Returned("set") =>
        /\ ret = "1" <=> \A ph \in DecidingPhases : \A b \in Selected : SucceededFor(ph, b)
        /\ FailedIn("postcommit") => (ret = "1" /\ ~RollbackRan)
        /\ RollbackRan =>
              \A n \in DOMAIN RollbackPhases : \A b \in Selected :
                  InvokedFor(RollbackPhases[n], b)
        /\ (\E n \in DOMAIN RollbackPhases : FailedIn(RollbackPhases[n]))
              => ("interface" \in pk.warn /\ pk.err = "none")

\* the prerollback phase of a kdbSet failed and the rollback and postrollback phases ran
C19_RollbackWentOn ==
    /\ Returned("set")
    /\ ret = "-1"
    /\ FailedIn("prerollback")
    /\ Invoked("rollback")
    /\ Invoked("postrollback")

\* C20: whenever the error function of a backend is invoked in a rollback phase of a kdbSet,
\* the global KeySet holds system:/elektra/kdb/backend/failedphase and its value is the phase
\* of this call in which a backend failed.
C20_FailedPhaseAdvertised ==
    op = "set" =>
        \A i \in BackendCalls :
            trace[i].fn = "error" =>
                \E j \in BackendCalls :
                    j < i /\ ~trace[j].ok /\ trace[j].phase = trace[i].gfailedphase

InitFailedFor(b) ==
    \E i \in BackendCalls : trace[i].phase = "init" /\ trace[i].b = b /\ ~trace[i].ok

\* what holds of the init calls of a call
InitCallsOk ==
    /\ \A i \in BackendCalls :
          trace[i].phase = "init" =>
              /\ op = "get"
              /\ ~pre.bd[trace[i].b].initialized
              /\ \A j \in BackendCalls :
                    (trace[j].phase = "init" /\ trace[j].b = trace[i].b) => j = i
              /\ trace[i].ok => bd[trace[i].b].initialized
    /\ \A b \in Backends :
          InitFailedFor(b) =>
              /\ ~bd[b].initialized
              /\ pc \in {"init", "idle"}
              /\ Returned("get") => ret = "-1"
    /\ (op = "get" /\ pc # "init") =>
          \A b \in Selected : ~pre.bd[b].initialized => InvokedFor("init", b)

\* C25: the init function of a backend is invoked only by kdbGet and only while the backend
\* is not initialized, at most once in a call; after it reported success or read-only the
\* backend is initialized and stays so, and init is not invoked for it again; after it
\* reported a failure the backend stays uninitialized, the kdbGet goes no further than the
\* init phase and returns -1, and the next kdbGet that selects the backend invokes its
\* init function again
C25_InitOnce ==
    /\ []InitCallsOk
    /\ [][\A b \in Backends : bd[b].initialized => bd'[b].initialized]_vars

\* a kdbGet has invoked init again for a backend whose init had failed in the kdbGet
\* before, while the other backend, initialized then, was not given another init call
C25_InitRetried ==
    /\ op = "get"
    /\ pre.op = "get"
    /\ pre.ret = "-1"
    /\ \E b \in Selected : ~pre.bd[b].initialized /\ SucceededFor("init", b)
    /\ \E b \in Selected : pre.bd[b].initialized /\ ~InvokedFor("init", b)

(***************************************************************************)
(* Backend plugins without a set function                                  *)
(***************************************************************************)
\* a plugin function the call invoked has reported a failure
SomeCallFailed == \E i \in DOMAIN trace : ~trace[i].ok

\* C26: a backend whose plugin defines no set function is read-only: kdbSet invokes no
\* function of it and does not fail because of it, so that a kdbSet that returned -1 for
\* backends that were all initialized had a plugin call that failed or a KeySet that
\* could not be divided among the backends
C26_NoSetFunctionSkipped ==
    /\ op = "set" => \A b \in noset : \A i \in BackendCalls : trace[i].b # b
    /\ (Returned("set") /\ ret = "-1" /\ \A b \in Selected : pre.bd[b].initialized)
          => (SomeCallFailed \/ ~backendsDivideOk(sel, ks))

\* a kdbSet returned -1 although every plugin function it invoked succeeded: a selected,
\* initialized backend has no set function
C26_FailedForMissingSet ==
    /\ Returned("set")
    /\ ret = "-1"
    /\ ~SomeCallFailed
    /\ \E b \in Selected \cap noset : pre.bd[b].initialized
    /\ \A b \in Selected : pre.bd[b].initialized
    /\ Invoked("resolver")

(***************************************************************************)
(* The needs-update mark                                                   *)
(***************************************************************************)
\* C30 as claimed: after the resolver call of a kdbGet a backend is marked as needing an
\* update exactly if the storage identifier the plugin wrote differs from the mountpoint
\* id the operation before had stored, and the new identifier is the stored id
C30_MarkedIffIdDiffers ==
    \A b \in Backends :
        (op = "get" /\ SucceededFor("resolver", b)) =>
            /\ bd[b].needsupdate <=> (LiveId(b) # pre.bd[b].mountpoint)
            /\ bd[b].mountpoint = LiveId(b)

\* C30: after the resolver call of a kdbGet a backend is marked as needing an update
\* exactly if the plugin reported success, which it does when the storage unit was changed
\* since the handle last resolved it, and not if it reported no update; whether the
\* identifier differs from the stored one plays no part, and in both cases the identifier
\* the plugin wrote is the stored mountpoint id
C30_MarkedIffChanged ==
    \A b \in Backends :
        (op = "get" /\ SucceededFor("resolver", b)) =>
            /\ bd[b].needsupdate <=> (pre.fresh[b] # "fresh")
            /\ bd[b].mountpoint = LiveId(b)

\* a backend is marked although the plugin wrote the identifier that was stored already:
\* another process had changed the storage unit
C30_MarkedWithSameId ==
    /\ op = "get"
    /\ \E b \in Backends : /\ SucceededFor("resolver", b)
                           /\ bd[b].needsupdate
                           /\ pre.bd[b].mountpoint = LiveId(b)
                           /\ pre.fresh[b] = "stale"

(***************************************************************************)
(* Return codes                                                            *)
(***************************************************************************)
\* the switch over the return code has run
Checked == cverdict # NoVerdict

\* C27 as claimed: success, no update, error and cache hit are the legal results of a plugin
\* call; every other value is taken for an unknown code and treated like an error
C27_FourLegalCodes ==
    Checked =>
        /\ ccode \notin Codes => (~cverdict.ok /\ ~cflag /\ cverdict.log = "unknown")
        /\ ccode \in Codes => cverdict.log # "unknown"

\* C27: a plugin call counts as a success for the results success and no update only; for
\* every other result the phase has failed (`success` is false, which makes kdbGet return
\* -1 and kdbSet run the rollback and return -1).  Error is reported as a failed call;
\* every other value, cache hit as well, is reported as an unknown result code.
C27_TwoCodesPass ==
    Checked =>
        /\ cverdict.ok <=> ccode \in {"SUCCESS", "NO_UPDATE"}
        /\ ~cverdict.ok => ~cflag
        /\ cverdict.log = "failed" <=> ccode = "ERROR"
        /\ cverdict.log = "unknown" <=> ccode \notin {"SUCCESS", "NO_UPDATE", "ERROR"}

\* a plugin returned cache hit in a loop that had not failed so far, and the switch took it
\* for an unknown result code
C27_CacheHitUnknown ==
    /\ Checked
    /\ ccode = "CACHE_HIT"
    /\ cverdict.log = "unknown"
    /\ ~cflag

(***************************************************************************)
(* KeySets and the order of keys                                           *)
(***************************************************************************)
\* the keys appended so far
Appended == {perm[j] : j \in 1..pos}

\* the keys of the KeySet in the order an iteration gives them
Iteration == [i \in DOMAIN cks |-> cks[i].key]

\* C28: the order in which a KeySet gives its keys does not depend on the order in which
\* they were appended: it is the order of the keys.  Appending a key that is equal to a key
\* of the KeySet replaces that key and does not make the KeySet larger.
C28_OrderIndependent ==
    /\ Iteration = SelectSeq(Solution, LAMBDA k : k \in Appended)
    /\ Len(cks) = Cardinality(Appended)
    /\ \A i \in DOMAIN cks :
          /\ cks[i].val \in 1..pos
          /\ perm[cks[i].val] = cks[i].key
          /\ \A j \in 1..pos : perm[j] = cks[i].key => j <= cks[i].val

\* user/x/y, user/s/1 and user/x/y again were appended: the KeySet has two keys, user/s/1
\* first, and user/x/y is the key appended last
C28_AppendedTwice ==
    /\ pos = 3
    /\ perm = <<Solution[5], Solution[1], Solution[5]>>
    /\ Len(cks) = 2
    /\ cks[2].val = 3

\* the name of a key: the key without its owner
NameOf(k) == [k EXCEPT !.owner = ""]

\* position of a key in the vector `solution`
SolPos(k) == CHOOSE i \in DOMAIN Solution : Solution[i] = k

\* the owners of the tests in their order; no owner comes first
OwnerOrder == <<"", "markus", "max">>
OwnerPos(o) == CHOOSE i \in DOMAIN OwnerOrder : OwnerOrder[i] = o

\* C29: keys are ordered by name first and by owner among keys of the same name, a key
\* without an owner before the keys of that name with one; the key without a name comes
\* before every key with a name; a KeySet gives keys of one name that differ in the owner
\* in that order
C29_OwnerOrder ==
    /\ cmp.done =>
          /\ cmp.r = 0 <=> cmp.a = cmp.b
          /\ (cmp.a = EmptyKey /\ cmp.b # EmptyKey) => cmp.r < 0
          /\ (cmp.a # EmptyKey /\ cmp.b = EmptyKey) => cmp.r > 0
          /\ (cmp.a # EmptyKey /\ cmp.b # EmptyKey /\ NameOf(cmp.a) # NameOf(cmp.b)) =>
                cmp.r = Sign(SolPos(NameOf(cmp.a)), SolPos(NameOf(cmp.b)))
          /\ (cmp.a # EmptyKey /\ NameOf(cmp.a) = NameOf(cmp.b)) =>
                cmp.r = Sign(OwnerPos(cmp.a.owner), OwnerPos(cmp.b.owner))
    /\ \A i, j \in DOMAIN cks :
          (i < j /\ NameOf(cks[i].key) = NameOf(cks[j].key)) =>
              OwnerPos(cks[i].key.owner) < OwnerPos(cks[j].key.owner)

\* test_appendowner: user/s/1 was appended with the owner markus, without an owner and with
\* the owner max, the KeySet gives the three keys with the one without an owner first; and
\* the key without a name was compared with one that has an owner
C29_OwnersAppended ==
    /\ pos = 3
    /\ perm = <<Solution[2], Solution[1], Solution[3]>>
    /\ Iteration = <<Solution[1], Solution[2], Solution[3]>>
    /\ cmp.done
    /\ cmp.a = EmptyKey
    /\ cmp.b = Solution[2]
    /\ cmp.r < 0

(***************************************************************************)
(* The mount table kdbOpen builds                                          *)
(***************************************************************************)
\* kdbOpen has returned the handle, and kdbClose was not called for it
Opened == opc = "open" /\ ccur = 1

\* the mountpoints of the handle that own the key name q: the deepest ones at or above it
OwnersOf(B, q) ==
    {i \in DOMAIN B :
        /\ keyIsBelowOrSame(MountPath(B[i].name), q)
        /\ \A j \in DOMAIN B : keyIsBelowOrSame(MountPath(B[j].name), q)
                                   => Len(MountPath(B[j].name)) <= Len(MountPath(B[i].name))}

\* key names of the namespace ns: its root, a key below the root, a key two levels below
NamesIn(ns) == {<<ns>>, <<ns, "k">>, <<ns, "a", "k">>, <<ns, "elektra", "k">>}

\* the namespaces has a root mountpoint, and every key name of it exactly one owner
Partitioned(ns) ==
    /\ \E i \in DOMAIN hb : MountPath(hb[i].name) = <<ns>>
    /\ \A q \in NamesIn(ns) : Cardinality(OwnersOf(hb, q)) = 1

\* C21 as claimed: in a handle kdbOpen returned every key name of the namespaces spec, proc,
\* dir, user, system and default has exactly one owning backend, and each of these
\* namespaces has a root mountpoint
C21_SixNamespaces ==
    Opened => \A ns \in {"spec", "proc", "dir", "user", "system", "default"} : Partitioned(ns)

\* C21: in a handle kdbOpen returned every key name of the namespaces spec, dir, user and
\* system has exactly one owning backend, the deepest mountpoint at or above it, and each
\* of these four namespaces has a root mountpoint.  A key name of proc or default has an
\* owner only if a mountpoint is defined at or above it.
C21_FourNamespaces ==
    Opened =>
        /\ \A ns \in {"spec", "dir", "user", "system"} : Partitioned(ns)
        /\ \A ns \in {"proc", "default"} :
              \A q \in NamesIn(ns) :
                  /\ Cardinality(OwnersOf(hb, q)) <= 1
                  /\ OwnersOf(hb, q) # {} =>
                        \E i \in DOMAIN conf : /\ conf[i].def = "ok"
                                               /\ keyIsBelowOrSame(MountPath(conf[i].name), q)

\* kdbOpen returned a handle for a configuration that defines user:/ and user:/a: user:/a
\* owns the keys below it, the root user:/ is the hard-coded one and owns the other keys
\* of the namespace, and no mountpoint owns the keys of proc and default
C21_NestedMountpoint ==
    /\ Opened
    /\ Len(conf) = 2
    /\ conf[1].name = "user:/"
    /\ conf[2].name = "user:/a"
    /\ \E i \in OwnersOf(hb, <<"user", "a", "k">>) : hb[i].name = "user:/a"
    /\ \E i \in OwnersOf(hb, <<"user", "k">>) : hb[i].name = "user:/" /\ hb[i].origin = "hardcoded"
    /\ OwnersOf(hb, <<"proc", "k">>) = {}
    /\ OwnersOf(hb, <<"default", "k">>) = {}

(***************************************************************************)
(* The reserved names                                                      *)
(***************************************************************************)
\* the name is system:/elektra or a name below it
BelowElektra(name) == keyIsBelowOrSame(MountPath("system:/elektra"), MountPath(name))

\* the definitions parseAndAddMountpoint was called for
Processed == {i \in DOMAIN conf : i < pidx \/ (i = pidx /\ opc = "hang")}

\* C22: no mountpoint defined at system:/elektra or below is in the mount table of a handle
\* kdbOpen returned: the mountpoints there are the hard-coded ones, system:/elektra/modules
\* and system:/elektra/version among them; a definition of such a mountpoint is reported
\* with an installation warning
C22_ReservedNamespace ==
    /\ oret = "handle" =>
          /\ \A i \in DOMAIN hb : BelowElektra(hb[i].name) => hb[i].origin = "hardcoded"
          /\ \A n \in {"system:/elektra/modules", "system:/elektra/version"} :
                \E i \in DOMAIN hb : hb[i].name = n
    /\ \A i \in Processed : BelowElektra(conf[i].name) => <<"reserved", conf[i].name>> \in ekey.warn

\* a mountpoint was defined below system:/elektra, with a backend and plugins: it was
\* reported, and kdbOpen has failed with an installation error
C22_ReservedRejected ==
    /\ opc = "failed"
    /\ oret = "NULL"
    /\ \E i \in DOMAIN conf : /\ BelowElektra(conf[i].name)
                              /\ conf[i].def = "ok"
                              /\ <<"reserved", conf[i].name>> \in ekey.warn
    /\ ekey.err = "installation"

(***************************************************************************)
(* kdbClose                                                                *)
(***************************************************************************)
\* the plugins of the backends of the handle: those of the KeySets `plugins` and the
\* backend plugins
BackendPlugins == PluginsOf(hb)

\* C23: kdbClose returns -1 for a NULL handle and 0 for any other; it has then called
\* close for every plugin of every backend and for every global plugin, also when the
\* close of one of them reported an error
C23_CloseAll ==
    /\ opc = "closednull" => oret = "-1"
    /\ opc = "closed" =>
          /\ oret = "0"
          /\ GlobalPlugins \subseteq SeqToSet(pclosed)
          /\ BackendPlugins \subseteq SeqToSet(pclosed)

\* kdbClose returned 0 after the close of a plugin of the first backend had reported an
\* error: the plugins of the backends after it were not closed
C23_BackendsLeftOpen ==
    /\ opc = "closed"
    /\ oret = "0"
    /\ \E p \in SeqToSet(pclosed) : <<"close", p>> \in ekey.warn
    /\ \E i \in DOMAIN hb :
          hb[i].plugins # <<>> /\ SeqToSet(hb[i].plugins) \cap SeqToSet(pclosed) = {}
    /\ GlobalPlugins \subseteq SeqToSet(pclosed)

(***************************************************************************)
(* The phase key of the global KeySet                                      *)
(***************************************************************************)
\* C31: at every invocation of the init, get, set, commit or error function of a backend
\* plugin by kdbGet or kdbSet, the key system:/elektra/kdb/backend/phase of the global
\* KeySet exists and holds the name of the phase that is executed, never the phase of an
\* earlier call.
C31_PhaseAdvertised ==
    \A i \in BackendCalls :
        trace[i].fn \in {"init", "get", "set", "commit", "error"}
            => trace[i].gphase = trace[i].phase

\* an init function was invoked while the phase key held the last phase of the call before
C31_InitSawEarlierPhase ==
    /\ op = "get"
    /\ \E i \in BackendCalls :
          /\ trace[i].phase = "init"
          /\ trace[i].gphase = "poststorage"
          /\ pre.gphase = "poststorage"

(***************************************************************************)
(* The KeySet a backend plugin is given in a kdbGet                        *)
(***************************************************************************)
\* C32: in every kdbGet on a handle the KeySet passed to the backend plugin in the resolver
\* phase, in the prestorage phase and in the storage phase is empty: no key of an earlier
\* operation and no key of an earlier phase is in it.  (The call of the plugin of sel[idx]
\* is the next step; backendData->keys is what it is given.)
C32_EmptyKeySetGiven ==
    (op = "get" /\ pc \in {"resolver", "prestorage", "storage"})
        => bd[sel[idx]].keys = EmptyKs

\* the resolver phase of a kdbGet has run for a backend with the keys the kdbGet before had
\* left in backendData->keys, and the prestorage phase is about to be given the same keys
C32_StaleKeysGiven ==
    /\ op = "get"
    /\ pc = "prestorage"
    /\ idx = 1
    /\ InvokedFor("resolver", sel[1])
    /\ pre.op = "get"
    /\ pre.ret = "1"
    /\ pre.bd[sel[1]].keys # EmptyKs
    /\ bd[sel[1]].keys = pre.bd[sel[1]].keys

(***************************************************************************)
(* A handle with a mountpoint in the spec namespace: the mountpoints are   *)
(* the roots spec:/ and user:/, and the handle is used for kdbGet only     *)
(***************************************************************************)
NsBackendSeq == << "spec:/", "user:/" >>
NsBackends == SeqToSet(NsBackendSeq)
NsParents == {"spec:/", "user:/"}

\* the storage of user:/ holds the keys below user:/, the one of spec:/ holds no key
NsStorage == [b \in NsBackends |->
                 [k \in {j \in KeyIdx : backendsFindParent(NsBackendSeq, KeyPath[j]) = b}
                     |-> [val |-> 1, sync |-> FALSE]]]

InitNs ==
    /\ mounts = NsBackendSeq
    /\ storage = NsStorage
    /\ temp = [b \in NsBackends |-> NoFile]
    /\ fresh = [b \in NsBackends |-> "none"]
    /\ ks = EmptyKs
    /\ ksSync = FALSE
    /\ bd = [b \in NsBackends |-> NewBackendData]
    /\ pk = NewKey("user:/")
    /\ initialParent = NewKey("user:/")
    /\ pc = "idle"
    /\ op = "none"
    /\ idx = 1
    /\ sel = <<>>
    /\ success = TRUE
    /\ ret = "none"
    /\ gphase = "none"
    /\ trace = <<>>
    /\ pre = [NoCall EXCEPT !.storage = NsStorage,
                            !.temp = [b \in NsBackends |-> NoFile],
                            !.fresh = [b \in NsBackends |-> "none"],
                            !.bd = [b \in NsBackends |-> NewBackendData]]
    /\ gfailedphase = "none"
    /\ nevents = 0
    /\ noset = {}
    /\ CodesIdle
    /\ KsIdle
    /\ OpenIdle

\* a handle of another process rewrites the storage unit of b with the key k it holds
NsOtherCommit(b, k, v) ==
    /\ Quiet
    /\ Events(1)
    /\ k \in DOMAIN NsStorage[b]
    /\ storage[b] # [j \in {k} |-> [val |-> v, sync |-> FALSE]]
    /\ storage' = [storage EXCEPT ![b] = [j \in {k} |-> [val |-> v, sync |-> FALSE]]]
    /\ fresh' = [fresh EXCEPT ![b] = IF @ = "fresh" THEN "stale" ELSE @]
    /\ UNCHANGED <<mounts, fixed, temp, ks, ksSync, bd, pk, gphase, initialParent, pc, idx,
                   sel, success, gfailedphase, op, ret, trace, pre>>

NextNs ==
    \/ \E b \in NsBackends, k \in KeyIdx, v \in Values : NsOtherCommit(b, k, v)
    \/ \E p \in NsParents : kdbGet(p)
    \/ \E r \in Codes : initBackends(r)
    \/ \E r \in Codes : resolveBackendsForGet(r)
    \/ \E r \in Codes, g1, g2 \in {"SUCCESS", "ERROR"} : runGetPhase(r, g1, g2)

SpecNs == InitNs /\ [][NextNs]_vars

(***************************************************************************)
(* The calls of the get function in a kdbGet                               *)
(***************************************************************************)
\* the calls of the get function of backend b in phase ph by the call
GetCalls(ph, b) ==
    {i \in BackendCalls : trace[i].phase = ph /\ trace[i].b = b /\ trace[i].fn = "get"}

\* C33: in a kdbGet that returns 1 the get function of every backend that needs an update
\* is invoked exactly once for each of the phases resolver, prestorage, storage and
\* poststorage; the step for the backends of the spec namespace between storage and merge
\* runs the storage phase on no backend a second time.
C33_OneCallPerPhase ==
    (Returned("get") /\ ret = "1")
        => \A b \in SeqToSet(sel) :
              \A ph \in {"resolver", "prestorage", "storage", "poststorage"} :
                  Cardinality(GetCalls(ph, b)) = 1

\* a kdbGet returned 1 after it ran the storage phase twice and the poststorage phase once
\* on the backend of spec:/
C33_SpecStorageTwice ==
    /\ Returned("get")
    /\ ret = "1"
    /\ "spec:/" \in SeqToSet(sel)
    /\ Cardinality(GetCalls("storage", "spec:/")) = 2
    /\ Cardinality(GetCalls("poststorage", "spec:/")) = 1

(***************************************************************************)
(* A kdbGet that updates only some of the selected backends                *)
(***************************************************************************)
\* the selected backends that step 4 of kdbGet removed as up to date
UpToDate == Selected \ SeqToSet(sel)

\* C34: when kdbGet returns 1 because only some of the selected backends needed an update,
\* every key of the result KeySet that belongs to a selected backend that needed none is
\* still in the result KeySet and is unchanged, also when the mountpoint of that backend
\* lies below the mountpoint of a backend that was updated.
C34_UpToDateKept ==
    (Returned("get") /\ ret = "1" /\ UpToDate # {})
        => \A k \in DOMAIN pre.ks :
              Owner(k) \in UpToDate => (k \in DOMAIN ks /\ ks[k] = pre.ks[k])

\* a kdbGet with parent key user:/ updated the backend of user:/ only, and the key of the
\* up-to-date backend of user:/a that was in the result KeySet is gone
C34_NestedKeysLost ==
    /\ Returned("get")
    /\ ret = "1"
    /\ pre.parent = "user:/"
    /\ sel = <<"user:/">>
    /\ UpToDate = {"user:/a"}
    /\ \E k \in DOMAIN pre.ks : Owner(k) = "user:/a" /\ k \notin DOMAIN ks
    /\ \A i \in BackendCalls : trace[i].ok

(***************************************************************************)
(* The error of a failed kdbSet                                            *)
(***************************************************************************)
\* C35: when kdbSet returns -1 after a failure in one of the phases resolver to commit, the
\* parent key still carries the error entry (meta:/error) the failing phase has set, once
\* prerollback, rollback and postrollback have run, whether they succeeded or failed.
C35_ErrorSurvivesRollback ==
    (Returned("set") /\ ret = "-1" /\ \E ph \in DecidingPhases : FailedIn(ph))
        => pk.err \in {"interface", "conflict"}

\* a kdbSet returned -1 after the storage phase failed and all three rollback phases ran
\* without a failure; the parent key has no error entry, the details that were recorded
\* with the error are still there
C35_ErrorRemovedByRollback ==
    /\ Returned("set")
    /\ ret = "-1"
    /\ FailedIn("storage")
    /\ \A ph \in SeqToSet(RollbackPhases) :
          \A b \in SeqToSet(sel) : SucceededFor(ph, b)
    /\ ~RollbackFailed
    /\ pk.err = "none"
    /\ pk.errInfo = "interface"

(***************************************************************************)
(* Termination of kdbSet                                                   *)
(***************************************************************************)
\* a step of the kdbSet in progress
SetStep ==
    \/ \E r \in Codes : resolveBackendsForSet(r)
    \/ \E r \in Codes : runSetPhase(r)

\* the handle as in Spec; a kdbSet that has been called keeps running: as long as it has
\* a step to take it takes one
SpecLive == Init /\ [][Next]_vars /\ WF_vars(SetStep)

\* C36: kdbSet returns after finitely many steps with one of 1, 0 or -1, whatever the
\* initialized and read-only flags of the selected backends are; the loop that checks the
\* initialisation and removes read-only backends visits each selected backend at most once.
C36_SetTerminates ==
    (op = "set" /\ ret = "none") ~> (pc = "idle" /\ op = "set" /\ ret \in {"1", "0", "-1"})

\* kdbSet is in the loop of step 4 at a backend that is initialized and read-only: the loop
\* has removed every key of the caller's KeySet from the position of that backend on, and
\* its cursor stays where it is
C36_LoopNeverEnds ==
    /\ op = "set"
    /\ pc = "spin"
    /\ ret = "none"
    /\ \E i \in DOMAIN sel :
          /\ bd[sel[i]].initialized
          /\ bd[sel[i]].readonly
          /\ \A j \in 1..(i - 1) : bd[sel[j]].initialized /\ ~bd[sel[j]].readonly
          /\ ksGetSize(ks) <= i - 1
    /\ ~ENABLED SetStep

(***************************************************************************)
(* The read-only mark of a backend                                         *)
(***************************************************************************)
\* C37: once the init function of a backend has returned the read-only status, the backend
\* is marked read-only (meta:/internal/kdbreadonly) in every state until kdbClose, also
\* after a further kdbGet that selects the backend and skips its init function.
C37_ReadOnlyPermanent ==
    \A b \in Backends : bd[b].initRo => bd[b].readonly

\* a kdbGet that selected a backend whose init function had reported read-only in an earlier
\* call has returned: the init function was not called again, and the mark is gone
C37_MarkLostInSecondGet ==
    /\ Returned("get")
    /\ \E b \in Selected :
          /\ pre.bd[b].initialized
          /\ pre.bd[b].initRo
          /\ pre.bd[b].readonly
          /\ ~InvokedFor("init", b)
          /\ bd[b].initialized
          /\ ~bd[b].readonly

(***************************************************************************)
(* How often a plugin is closed                                            *)
(***************************************************************************)
\* the number of calls of elektraPluginClose for plugin p
CloseCalls(p) == Cardinality({i \in DOMAIN pclosed : pclosed[i] = p})

\* C38: every plugin opened for the backends of a handle (the bootstrap backend with its
\* resolver and storage, the plugins of each configured mountpoint, the default resolver,
\* storage and backend plugin of the root mountpoints, the modules and version plugins) is
\* closed exactly once by the sequence kdbOpen ... kdbClose: none is closed twice because
\* several backends list it, and none, a backend plugin included, is left unclosed.
C38_ClosedExactlyOnce ==
    opc = "closed" => \A p \in popened : CloseCalls(p) = 1

\* kdbOpen without configured mountpoints returned a handle and kdbClose returned 0; no
\* close reported an error.  The default resolver, which the four root mountpoints list,
\* was closed four times; the backend plugins of the bootstrap mountpoint and of the root
\* mountpoints were closed by no call
C38_SharedClosedFourTimes ==
    /\ opc = "closed"
    /\ oret = "0"
    /\ conf = <<>>
    /\ ekey.warn = {}
    /\ ekey.err = "none"
    /\ CloseCalls(<<"boot", "resolver">>) = 1
    /\ CloseCalls(<<"default", "resolver">>) = 4
    /\ <<"boot", "backend">> \in popened
    /\ CloseCalls(<<"boot", "backend">>) = 0
    /\ <<"default", "backend">> \in popened
    /\ CloseCalls(<<"default", "backend">>) = 0

(***************************************************************************)
(* C39: the parent key is handed back intact.  After kdbGet or kdbSet has  *)
(* returned, with any of the return codes 1, 0 and -1, the name of the     *)
(* parent key is the name the caller passed in, not the name of the        *)
(* mountpoint that was processed last.                                     *)
(***************************************************************************)
C39_ParentHandedBack ==
    ((Returned("get") \/ Returned("set")) /\ ret \in {"1", "0", "-1"})
        => pk.name = pre.parent

C39_ParentNamedAfterMountpoint ==
    /\ Returned("set")
    /\ ret = "1"
    /\ pre.parent = "user:/"
    /\ pk.name # "user:/"
    /\ pk.name \in Backends
    /\ \E i \in BackendCalls : trace[i].fn = "commit" /\ trace[i].b = pk.name

(***************************************************************************)
(* kdbOpen and the mount configuration                                     *)
(***************************************************************************)
\* the entry i of the mount configuration is in the mount table B as it was configured,
\* with the plugin its backend reference names as the backend plugin
Mounted(B, i) ==
    \E j \in DOMAIN B :
        /\ B[j].name = conf[i].name
        /\ B[j].origin = "config"
        /\ B[j].backend = <<conf[i].name, "#0">>

\* an entry of the mount configuration cannot be turned into a backend
BadEntry(i) == Reserved(conf[i].name) \/ conf[i].def # "ok"

\* C40: kdbOpen is all-or-nothing with respect to the mount configuration.  When an
\* entry below system:/elektra/mountpoints cannot be turned into a backend, kdbOpen
\* returns no handle; the NULL it returns then comes with an installation error on the
\* error key and with a close of every plugin that was opened for the other entries.
\* When it returns a handle, every entry is in the mount table, bound to the plugin
\* that its backend reference names.
C40_AllOrNothing ==
    /\ (\E i \in DOMAIN conf : BadEntry(i)) => oret # "handle"
    /\ (oret = "NULL" /\ opc = "failed" /\ perr) =>
          /\ ekey.err = "installation"
          /\ SeqToSet(PluginList(parsed)) \subseteq SeqToSet(pclosed)
    /\ oret = "handle" => \A i \in DOMAIN conf : Mounted(hb, i)

\* kdbOpen returned a handle for a configuration of one mountpoint, user:/a, whose
\* plugin was opened; the mount table has user:/a without a backend plugin
C40_BoundToNoPlugin ==
    /\ oret = "handle"
    /\ opc = "open"
    /\ Len(conf) = 1
    /\ conf[1] = [name |-> "user:/a", def |-> "ok"]
    /\ ekey.err = "none"
    /\ <<"user:/a", "#0">> \in popened
    /\ \E j \in DOMAIN hb : /\ hb[j].name = "user:/a"
                            /\ hb[j].origin = "config"
                            /\ hb[j].plugins = << <<"user:/a", "#0">> >>
                            /\ hb[j].backend = NoPlugin

====
